---- MODULE Spec2Model ----
(***************************************************************************)
(* A model of clang-sys: the llvm-config helper search                     *)
(* (build/common.rs), and the runtime loader, per-thread library registry  *)
(* and version classifier generated by the link! macro (src/link.rs).      *)
(*                                                                         *)
(* The specifications that share the module:                               *)
(*   SpecSel  find_llvm_config_uncached applied to bounded inputs          *)
(*   SpecVer  SharedLibrary::version applied to bounded library images     *)
(*   Spec     threads calling load / unload / get_library / set_library /  *)
(*            is_loaded / wrappers on their thread-local LIBRARY slot      *)
(*   SpecCmd  the build script's thread running the helper commands, the   *)
(*            directory search and the static link step                    *)
(*   SpecCache threads resolving the llvm-config path through their        *)
(*            thread-local LLVM_CONFIG_PATH_CACHE                          *)
(*   SpecKey  extract_version_from_llvm_path applied to bounded paths      *)
(*   SpecScan search_libclang_directories applied to bounded filesystems   *)
(* Each one holds the variables of the others fixed.                       *)
(***************************************************************************)
EXTENDS Integers, Sequences, FiniteSets, TLC

VARIABLES
    \* ---- find_llvm_config_uncached: inputs
    testMode,        \* test!()
    target_version,  \* get_target_clang_version(): Option<u32>
    pathProbe,       \* outcome of `llvm-config --version` resolved on PATH
    fsMatches,       \* existing paths the globs yield, in pattern then match order
    queryOut,        \* outcome of `<path> --version` for each unversioned path
    \* ---- find_llvm_config_uncached: outputs
    selDone,         \* the function has returned
    candidates,      \* the local Vec<(PathBuf, Vec<u32>)> as the discovery loop left it
    selResult,       \* the returned Option<String>
    diagnostic,      \* the cargo:warning line printed, if any
    selEffects,      \* the processes the function spawned and whether it ran the globs
    \* ---- SharedLibrary::version
    verLib,          \* the opened library image
    verDone,         \* version() has returned
    verOut,          \* the returned Option<Version>
    verStr,          \* what the version_from_string call made by version() did, if any
    \* ---- runtime registry
    LIBRARY,         \* thread -> Option<Arc<SharedLibrary>> (a handle index into libs)
    libs,            \* every SharedLibrary constructed so far, by handle
    held,            \* the Option<Arc<SharedLibrary>> get_library returned last, kept by
                     \* the callers and passed between threads
    status,          \* thread -> "running" | "panicked"
    last,            \* the latest operation: its thread, inputs and outcome
    strong,          \* handle -> the strong count of its Arc; the SharedLibrary is
                     \* dropped, and its libloading::Library closed, at 0
    \* ---- helper commands of the build script
    targetMacos,            \* target_os!("macos")
    LLVM_CONFIG_PATH,       \* the environment variable, if set
    COMMAND_ERRORS,         \* thread -> helper name -> Vec<String> of messages
    LLVM_CONFIG_PATH_CACHE, \* thread -> Option<Option<String>>
    searchRuns,             \* how often find_llvm_config_uncached has run in the process
    discardedUpTo,          \* thread -> helper name -> length its list had when a
                            \* CommandErrorPrinter was last discarded
    buildStatus,            \* thread -> "running" | "panicked"
    cmdLast,                \* the latest helper operation: inputs and outcome
    \* ---- extract_version_from_llvm_path
    keyPath,         \* the path the function is applied to
    keyOut,          \* the returned Vec<u32>, None before the call
    \* ---- search_libclang_directories over a filesystem
    scanFs,          \* directory -> the file names in it, in the order glob yields them
    scanFilenames,   \* the `filenames` argument: glob patterns
    scanVariable,    \* env::var(variable): the override path, if set
    scanPrefix,      \* what `llvm-config --prefix` does
    scanOut          \* what the call did and returned, None before the call

selVars == <<testMode, target_version, pathProbe, fsMatches, queryOut,
             selDone, candidates, selResult, diagnostic, selEffects>>
verVars == <<verLib, verDone, verOut, verStr>>
regVars == <<LIBRARY, libs, held, status, last, strong>>
cmdVars == <<targetMacos, LLVM_CONFIG_PATH, COMMAND_ERRORS, LLVM_CONFIG_PATH_CACHE,
             searchRuns, discardedUpTo, buildStatus, cmdLast>>
keyVars == <<keyPath, keyOut>>
dirVars == <<scanFs, scanFilenames, scanVariable, scanPrefix, scanOut>>
scanVars == <<keyVars, dirVars>>
vars == <<selVars, verVars, regVars, cmdVars, scanVars>>

-----------------------------------------------------------------------------
(* Option<T> is a sequence of at most one element. *)
None == <<>>
Some(x) == <<x>>
IsSome(o) == Len(o) = 1
IsNone(o) == Len(o) = 0
Unwrap(o) == o[1]

(* Bounds of the model. *)
MaxCand == 2
MaxLibs == 2
MaxMarkers == 2
MaxErrors == 2
MaxDirs == 2
MaxFiles == 2

-----------------------------------------------------------------------------
(* Text.  A piece of text between separators is a token: a run of decimal  *)
(* digits with the value val, a run of digits above u32::MAX (big), or     *)
(* something that is no number.                                            *)
Digits(n) == [num |-> TRUE, big |-> FALSE, val |-> n]
Huge == [num |-> TRUE, big |-> TRUE, val |-> 0]
Word == [num |-> FALSE, big |-> FALSE, val |-> 0]

(* str::parse::<u32>: digits in range, else an error. *)
ParseU32(tok) == IF tok.num /\ ~tok.big THEN Some(tok.val) ELSE None

(* rest.split('.').filter_map(|p| p.parse().ok()).collect() *)
RECURSIVE ParseDotted(_)
ParseDotted(toks) ==
    IF toks = <<>> THEN <<>>
    ELSE LET p == ParseU32(Head(toks))
         IN  (IF IsSome(p) THEN <<Unwrap(p)>> ELSE <<>>) \o ParseDotted(Tail(toks))

(* s.trim().split('.').next().and_then(|s| s.parse::<u32>().ok()) *)
ParseMajor(toks) == IF toks = <<>> THEN None ELSE ParseU32(Head(toks))

-----------------------------------------------------------------------------
(* Paths.  A path component is a literal prefix followed by the tokens of  *)
(* the rest split at '.': "llvm-18" is ("llvm-", <<18>>), "llvm-config" is *)
(* ("llvm-", <<config>>), "llvm-config-17" is ("llvm-config-", <<17>>).    *)
Comp(pre, toks) == [pre |-> pre, toks |-> toks]
Plain == Comp("", <<Word>>)
Path(dirs, file) == [dirs |-> dirs, file |-> file]

(* str::strip_prefix on a component for the prefixes the code uses. *)
StripPrefix(c, prefix) ==
    IF c.pre = prefix THEN Some(c.toks)
    ELSE IF c.pre = "llvm-config-" /\ prefix = "llvm-"
         THEN Some(<<Word>> \o Tail(c.toks))   \* "config-<first>" is no number
         ELSE None

UnversionedKey == 999
LowPriorityKey == 0

RECURSIVE ScanComponents(_)
ScanComponents(comps) ==
    IF comps = <<>> THEN <<UnversionedKey>>
    ELSE LET s  == Head(comps)
             at == StripPrefix(s, "llvm@")
             da == StripPrefix(s, "llvm-")
             va == IF IsSome(at) THEN ParseDotted(Unwrap(at)) ELSE <<>>
             vd == IF IsSome(da) THEN ParseDotted(Unwrap(da)) ELSE <<>>
         IN  IF va # <<>> THEN va
             ELSE IF vd # <<>> THEN vd
             ELSE ScanComponents(Tail(comps))

(* An extraction that looks at the components only. *)
ExtractFromDirectories(path) == ScanComponents(path.dirs \o <<path.file>>)

extract_version_from_llvm_path(path) ==
    LET rest == StripPrefix(path.file, "llvm-config-")
    IN  IF IsSome(rest)
        THEN LET version == ParseDotted(Unwrap(rest))
             IN  IF version # <<>> THEN version ELSE <<LowPriorityKey>>
        ELSE ScanComponents(path.dirs \o <<path.file>>)

(* The bare name "llvm-config", resolved on PATH when run. *)
BareLlvmConfig == Path(<<>>, Comp("llvm-", <<Word>>))

(* The paths the model's filesystem can hold. *)
UsrBinConfig17 == Path(<<Plain, Plain>>, Comp("llvm-config-", <<Digits(17)>>))
UsrBinConfig18 == Path(<<Plain, Plain>>, Comp("llvm-config-", <<Digits(18)>>))
UsrBinConfigGit == Path(<<Plain, Plain>>, Comp("llvm-config-", <<Word>>))
UsrBinConfigDated == Path(<<Plain, Plain>>, Comp("llvm-config-", <<Digits(20240101)>>))
UsrLibLlvm18 == Path(<<Plain, Plain, Comp("llvm-", <<Digits(18)>>), Plain>>,
                     Comp("llvm-", <<Word>>))
UsrLibLlvm19_1 == Path(<<Plain, Plain, Comp("llvm-", <<Digits(19), Digits(1)>>), Plain>>,
                       Comp("llvm-", <<Word>>))
BrewLlvmAt17 == Path(<<Plain, Plain, Plain, Comp("llvm@", <<Digits(17)>>), Plain>>,
                     Comp("llvm-", <<Word>>))
BrewLlvm == Path(<<Plain, Plain, Plain, Plain, Plain>>, Comp("llvm-", <<Word>>))
UsrLocalLlvm == Path(<<Plain, Plain, Plain, Plain>>, Comp("llvm-", <<Word>>))

VersionedPaths == {UsrBinConfig17, UsrBinConfig18, UsrBinConfigGit, UsrBinConfigDated,
                   UsrLibLlvm18, UsrLibLlvm19_1, BrewLlvmAt17}
UnversionedPaths == {BrewLlvm, UsrLocalLlvm}
Paths == VersionedPaths \cup UnversionedPaths

(* One call of extract_version_from_llvm_path. *)
extract_version_call ==
    /\ keyOut = None
    /\ keyOut' = Some(extract_version_from_llvm_path(keyPath))
    /\ UNCHANGED keyPath
    /\ UNCHANGED <<selVars, verVars, regVars, cmdVars, dirVars>>

-----------------------------------------------------------------------------
(* Outcome of running `<exe> --version`: whether the process ran and exited *)
(* with success, and its trimmed stdout split at '.'.                       *)
Ran(toks) == [ok |-> TRUE, out |-> toks]
NotRun == [ok |-> FALSE, out |-> <<>>]
VersionOutputs == {NotRun, Ran(<<Word>>), Ran(<<Digits(18), Digits(1), Digits(8)>>),
                   Ran(<<Digits(19), Digits(1), Digits(0)>>)}

query_llvm_config_version(o) == IF o.ok THEN ParseMajor(o.out) ELSE None

(* Vec<u32> ordering: lexicographic, a proper prefix is smaller. *)
RECURSIVE VecLess(_, _)
VecLess(a, b) ==
    IF b = <<>> THEN FALSE
    ELSE IF a = <<>> THEN TRUE
    ELSE IF Head(a) # Head(b) THEN Head(a) < Head(b)
    ELSE VecLess(Tail(a), Tail(b))

(* A discovery loop that never asks an unversioned install for its version. *)
RECURSIVE DiscoverKeepingSentinel(_, _)
DiscoverKeepingSentinel(matches, query) ==
    IF matches = <<>> THEN <<>>
    ELSE <<[path |-> Head(matches), version |-> extract_version_from_llvm_path(Head(matches))]>>
         \o DiscoverKeepingSentinel(Tail(matches), query)

(* The discovery loop: one candidate per existing match, in order. *)
RECURSIVE Discover(_, _)
Discover(matches, query) ==
    IF matches = <<>> THEN <<>>
    ELSE LET path == Head(matches)
             v0   == extract_version_from_llvm_path(path)
             real == IF v0 = <<UnversionedKey>>
                     THEN query_llvm_config_version(query[path]) ELSE None
             version == IF IsSome(real) THEN <<Unwrap(real)>> ELSE v0
         IN  <<[path |-> path, version |-> version]>> \o Discover(Tail(matches), query)

(* A find that substitutes the first candidate when none matches. *)
FindByMajorOrFirst(cands, target) ==
    LET m == {i \in 1..Len(cands) : cands[i].version # <<>> /\ cands[i].version[1] = target}
    IN  IF cands = <<>> THEN None
        ELSE IF m = {} THEN Some(cands[1])
        ELSE Some(cands[CHOOSE i \in m : \A j \in m : i <= j])

(* candidates.iter().find(|(_, v)| v.first().copied() == Some(target)) *)
RECURSIVE FindByMajor(_, _)
FindByMajor(cands, target) ==
    IF cands = <<>> THEN None
    ELSE IF Head(cands).version # <<>> /\ Head(Head(cands).version) = target
         THEN Some(Head(cands))
         ELSE FindByMajor(Tail(cands), target)

(* A listing that reports each leading component once. *)
RECURSIVE AvailableMajorsDeduped(_)
AvailableMajorsDeduped(cands) ==
    IF cands = <<>> THEN <<>>
    ELSE LET rest == AvailableMajorsDeduped(Tail(cands))
             n    == Head(cands).version[1]
         IN  IF \E i \in 1..Len(rest) : rest[i] = n THEN rest ELSE <<n>> \o rest

(* candidates.iter().filter_map(|(_, v)| v.first()...).collect() *)
RECURSIVE AvailableMajors(_)
AvailableMajors(cands) ==
    IF cands = <<>> THEN <<>>
    ELSE (IF Head(cands).version # <<>> THEN <<Head(Head(cands).version)>> ELSE <<>>)
         \o AvailableMajors(Tail(cands))

(* An insertion that puts a candidate before the ones with an equal key. *)
RECURSIVE InsertDescUnstable(_, _)
InsertDescUnstable(sorted, c) ==
    IF sorted = <<>> THEN <<c>>
    ELSE IF ~VecLess(c.version, Head(sorted).version)
         THEN <<c>> \o sorted
         ELSE <<Head(sorted)>> \o InsertDescUnstable(Tail(sorted), c)

(* candidates.sort_by(|a, b| b.1.cmp(&a.1)): a stable sort, highest first. *)
RECURSIVE InsertDesc(_, _)
InsertDesc(sorted, c) ==
    IF sorted = <<>> THEN <<c>>
    ELSE IF VecLess(Head(sorted).version, c.version)
         THEN <<c>> \o sorted
         ELSE <<Head(sorted)>> \o InsertDesc(Tail(sorted), c)

RECURSIVE SortDesc(_)
SortDesc(cands) ==
    IF cands = <<>> THEN <<>>
    ELSE InsertDesc(SortDesc(SubSeq(cands, 1, Len(cands) - 1)), cands[Len(cands)])

NoDiagnostic == [kind |-> "none", target |-> None, path |-> None, available |-> <<>>]

Returned(result, cands, diag) ==
    [result |-> result, candidates |-> cands, diagnostic |-> diag]

(* The candidate selection that ends find_llvm_config_uncached. *)
SelectCandidate(cands, target) ==
    IF cands = <<>> THEN Returned(None, cands, NoDiagnostic)
    ELSE IF IsSome(target)
    THEN LET hit == FindByMajor(cands, Unwrap(target))
         IN  IF IsSome(hit)
             THEN Returned(Some(Unwrap(hit).path), cands,
                           [kind |-> "auto-detected", target |-> target,
                            path |-> Some(Unwrap(hit).path), available |-> <<>>])
             ELSE Returned(None, cands,
                           [kind |-> "could not find", target |-> target,
                            path |-> None, available |-> AvailableMajors(cands)])
    ELSE LET sorted == SortDesc(cands)
         IN  Returned(Some(sorted[1].path), cands,
                      [kind |-> "auto-detected", target |-> None,
                       path |-> Some(sorted[1].path), available |-> <<>>])

(* Whether the PATH-resolved llvm-config is accepted before any search. *)
AcceptPathProbe(target, probe) ==
    /\ probe.ok
    /\ LET path_major == ParseMajor(probe.out)
       IN  \/ IsNone(target)
           \/ IsNone(path_major)
           \/ Unwrap(target) = Unwrap(path_major)

(* A search that runs in test mode as it does in a build. *)
FindUncachedInTests(test, target, probe, matches, query) ==
    IF AcceptPathProbe(target, probe)
    THEN Returned(Some(BareLlvmConfig), <<>>, NoDiagnostic)
    ELSE SelectCandidate(Discover(matches, query), target)

FindUncached(test, target, probe, matches, query) ==
    IF test THEN Returned(None, <<>>, NoDiagnostic)
    ELSE IF AcceptPathProbe(target, probe)
    THEN Returned(Some(BareLlvmConfig), <<>>, NoDiagnostic)
    ELSE SelectCandidate(Discover(matches, query), target)

(* What a run of the search does to its surroundings: the number of        *)
(* Command::output() calls (the PATH probe and one query per match whose   *)
(* key is [999]) and whether the glob patterns were read.                  *)
Effects(spawned, globbed) == [spawned |-> spawned, globbed |-> globbed]
NoEffects == Effects(0, FALSE)
UncachedEffects(test, target, probe, matches) ==
    IF test THEN NoEffects
    ELSE IF AcceptPathProbe(target, probe) THEN Effects(1, FALSE)
    ELSE Effects(1 + Len(SelectSeq(matches,
                     LAMBDA path : extract_version_from_llvm_path(path) = <<UnversionedKey>>)),
                 TRUE)

find_llvm_config_uncached ==
    /\ ~selDone
    /\ LET r == FindUncached(testMode, target_version, pathProbe, fsMatches, queryOut)
       IN  /\ candidates' = r.candidates
           /\ selResult' = r.result
           /\ diagnostic' = r.diagnostic
    /\ selEffects' = UncachedEffects(testMode, target_version, pathProbe, fsMatches)
    /\ selDone' = TRUE
    /\ UNCHANGED <<testMode, target_version, pathProbe, fsMatches, queryOut>>
    /\ UNCHANGED <<verVars, regVars, cmdVars, scanVars>>

-----------------------------------------------------------------------------
(* SharedLibrary::version.  A library image is the set of symbols it       *)
(* exports and the text its clang_getClangVersion returns: a null or       *)
(* non-UTF-8 C string, or whitespace-separated words, each one a sequence  *)
(* of tokens separated by '.'.                                             *)

(* enum Version, by discriminant; the derived Ord is the declaration order. *)
V3_5 == 35
V3_6 == 36
V3_7 == 37
V3_8 == 38
V3_9 == 39
V4_0 == 40
V5_0 == 50
V6_0 == 60
V7_0 == 70
V8_0 == 80
V9_0 == 90
V11_0 == 110
V12_0 == 120
V16_0 == 160
V17_0 == 170
V18_0 == 180
V19_0 == 190
V20_0 == 200
V21_0 == 210
V22_0 == 220
V23_0 == 230

Versions == {V3_5, V3_6, V3_7, V3_8, V3_9, V4_0, V5_0, V6_0, V7_0, V8_0, V9_0,
             V11_0, V12_0, V16_0, V17_0, V18_0, V19_0, V20_0, V21_0, V22_0, V23_0}

(* The marker checks of version(), newest first; parse marks the two that  *)
(* consult version_from_string before falling back to the marker's release. *)
Check(symbol, v, parse) == [symbol |-> symbol, version |-> v, parse |-> parse]
MarkerChecks == <<
    Check("clang_getFullyQualifiedName", V21_0, TRUE),
    Check("clang_getOffsetOfBase", V20_0, FALSE),
    Check("clang_Cursor_getBinaryOpcode", V19_0, FALSE),
    Check("clang_CXXMethod_isExplicit", V17_0, TRUE),
    Check("clang_CXXMethod_isCopyAssignmentOperator", V16_0, FALSE),
    Check("clang_Cursor_getVarDeclInitializer", V12_0, FALSE),
    Check("clang_Type_getValueType", V11_0, FALSE),
    Check("clang_Cursor_isAnonymousRecordDecl", V9_0, FALSE),
    Check("clang_Cursor_getObjCPropertyGetterName", V8_0, FALSE),
    Check("clang_File_tryGetRealPathName", V7_0, FALSE),
    Check("clang_CXIndex_setInvocationEmissionPathOption", V6_0, FALSE),
    Check("clang_Cursor_isExternalSymbol", V5_0, FALSE),
    Check("clang_EvalResult_getAsLongLong", V4_0, FALSE),
    Check("clang_CXXConstructor_isConvertingConstructor", V3_9, FALSE),
    Check("clang_CXXField_isMutable", V3_8, FALSE),
    Check("clang_Cursor_getOffsetOfField", V3_7, FALSE),
    Check("clang_Cursor_getStorageClass", V3_6, FALSE),
    Check("clang_Type_getNumTemplateArguments", V3_5, FALSE) >>

Markers == {MarkerChecks[i].symbol : i \in 1..Len(MarkerChecks)}
StringFns == {"clang_getClangVersion", "clang_getCString", "clang_disposeString"}

(* self.library.get(symbol).is_ok() *)
Exports(lib, symbol) == symbol \in lib.exports

(* The match on the parsed major that ends version_from_string. *)
MapMajor(major) ==
    IF major >= 23 THEN Some(V23_0)
    ELSE IF major = 22 THEN Some(V22_0)
    ELSE IF major = 21 THEN Some(V21_0)
    ELSE IF major = 20 THEN Some(V20_0)
    ELSE IF major = 19 THEN Some(V19_0)
    ELSE IF major = 18 THEN Some(V18_0)
    ELSE IF major = 17 THEN Some(V17_0)
    ELSE IF major = 16 THEN Some(V16_0)
    ELSE IF major >= 12 /\ major <= 15 THEN Some(V12_0)
    ELSE IF major = 11 THEN Some(V11_0)
    ELSE IF major = 9 \/ major = 10 THEN Some(V9_0)
    ELSE IF major = 8 THEN Some(V8_0)
    ELSE IF major = 7 THEN Some(V7_0)
    ELSE IF major = 6 THEN Some(V6_0)
    ELSE IF major = 5 THEN Some(V5_0)
    ELSE IF major = 4 THEN Some(V4_0)
    ELSE None

(* version_str.split_whitespace().nth(2)?.split('.').next()?.parse::<u32>().ok()? *)
ParseVersionText(words) ==
    IF Len(words) < 3 THEN None ELSE ParseMajor(words[3])

(* What a call of version_from_string did: its return value, whether it    *)
(* obtained a CXString from clang_getClangVersion, and how often it passed *)
(* that CXString to clang_disposeString.                                   *)
Vfs(ret, obtained, disposed) == [ret |-> ret, obtained |-> obtained, disposed |-> disposed]

version_from_string(lib) ==
    IF ~Exports(lib, "clang_getClangVersion") THEN Vfs(None, FALSE, 0)
    ELSE IF ~Exports(lib, "clang_getCString") THEN Vfs(None, TRUE, 0)
    ELSE IF lib.text.null THEN Vfs(None, TRUE, 0)
    ELSE IF ~lib.text.utf8 THEN Vfs(None, TRUE, 0)
    ELSE LET major == ParseVersionText(lib.text.words)
         IN  IF IsNone(major) THEN Vfs(None, TRUE, 0)
             ELSE IF ~Exports(lib, "clang_disposeString") THEN Vfs(None, TRUE, 0)
             ELSE Vfs(MapMajor(Unwrap(major)), TRUE, 1)

(* An `or` that keeps the fallback even when the first value is present. *)
OrElseFallbackFirst(a, b) == b

(* An `or` that drops the fallback. *)
OrElseNoFallback(a, b) == a

(* Option::or *)
OrElse(a, b) == IF IsSome(a) THEN a ELSE b

RECURSIVE WalkChecks(_, _)
WalkChecks(lib, checks) ==
    IF checks = <<>> THEN None
    ELSE LET c == Head(checks)
         IN  IF Exports(lib, c.symbol)
             THEN IF c.parse
                  THEN OrElse(version_from_string(lib).ret, Some(c.version))
                  ELSE Some(c.version)
             ELSE WalkChecks(lib, Tail(checks))

(* The call of version_from_string that the walk makes: the one of the     *)
(* first exported marker, when that marker is one of the two that parse.   *)
RECURSIVE StringParseCall(_, _)
StringParseCall(lib, checks) ==
    IF checks = <<>> THEN None
    ELSE LET c == Head(checks)
         IN  IF Exports(lib, c.symbol)
             THEN IF c.parse THEN Some(version_from_string(lib)) ELSE None
             ELSE StringParseCall(lib, Tail(checks))

Reverse(s) == [i \in 1..Len(s) |-> s[Len(s) + 1 - i]]

(* A version() that walks the marker checks oldest first. *)
VersionOldestFirst(lib) == WalkChecks(lib, Reverse(MarkerChecks))

(* A version() that asks the version text when no marker is exported. *)
VersionGuessFromText(lib) ==
    OrElse(WalkChecks(lib, MarkerChecks), version_from_string(lib).ret)

version(lib) == WalkChecks(lib, MarkerChecks)

(* The version texts of the model: "clang version <major>.0.3" for a range *)
(* of majors, and the shapes on which parsing fails.                       *)
Text(words) == [null |-> FALSE, utf8 |-> TRUE, words |-> words]
NullText == [null |-> TRUE, utf8 |-> TRUE, words |-> <<>>]
BadUtf8Text == [null |-> FALSE, utf8 |-> FALSE, words |-> <<>>]
ClangVersion(major) == Text(<< <<Word>>, <<Word>>, <<Digits(major), Digits(0), Digits(3)>> >>)
TextMajors == {3, 4, 10, 15, 16, 17, 18, 19, 20, 21, 22, 23, 24}
Texts == {ClangVersion(n) : n \in TextMajors}
         \cup {NullText, BadUtf8Text, Text(<<>>), Text(<< <<Word>>, <<Word>> >>),
               Text(<< <<Word>>, <<Word>>, <<Word>>, <<Digits(15), Digits(0), Digits(0)>> >>),
               Text(<< <<Word>>, <<Word>>, <<Huge, Digits(0)>> >>)}

LibImage(exports, text) == [exports |-> exports, text |-> text]

version_call ==
    /\ ~verDone
    /\ verOut' = version(verLib)
    /\ verStr' = StringParseCall(verLib, MarkerChecks)
    /\ verDone' = TRUE
    /\ UNCHANGED verLib
    /\ UNCHANGED <<selVars, regVars, cmdVars, scanVars>>

-----------------------------------------------------------------------------
(* The runtime registry generated by link!: the thread-local LIBRARY slot, *)
(* load / unload / get_library / set_library / is_loaded, and per function *)
(* a wrapper and an is_loaded query.                                       *)

Threads == {"t1", "t2"}

(* The functions declared through link! that the model follows. *)
Catalog == {"clang_createIndex", "clang_parseTranslationUnit"}

(* impl Display for Version *)
VersionDisplay(v) ==
    CASE v = V3_5 -> "3.5.x"
      [] v = V3_6 -> "3.6.x"
      [] v = V3_7 -> "3.7.x"
      [] v = V3_8 -> "3.8.x"
      [] v = V3_9 -> "3.9.x"
      [] v = V4_0 -> "4.0.x"
      [] v = V5_0 -> "5.0.x"
      [] v = V6_0 -> "6.0.x"
      [] v = V7_0 -> "7.0.x"
      [] v = V8_0 -> "8.0.x"
      [] v = V9_0 -> "9.0.x - 10.0.x"
      [] v = V11_0 -> "11.0.x"
      [] v = V12_0 -> "12.0.x - 15.0.x"
      [] v = V16_0 -> "16.0.x"
      [] v = V17_0 -> "17.0.x"
      [] v = V18_0 -> "18.0.x"
      [] v = V19_0 -> "19.0.x"
      [] v = V20_0 -> "20.0.x"
      [] v = V21_0 -> "21.0.x"
      [] v = V22_0 -> "22.0.x"
      [] v = V23_0 -> "23.0.x or later"

(* The library files a load can find, one for every subset of the catalog: *)
(* images of release 19 that export some function of the catalog, and an   *)
(* image that exports no function of the catalog and no marker.            *)
Release19Markers == {MarkerChecks[i].symbol : i \in 3..Len(MarkerChecks)}
Images == {LibImage(f \cup Release19Markers \cup StringFns, ClangVersion(19)) :
                f \in (SUBSET Catalog) \ {{}}}
          \cup {LibImage({}, NullText)}

(* What the environment does to one load: whether build::dynamic::find     *)
(* returns a file, whether libloading opens it, and the image opened.      *)
Env(found, opened, image) == [found |-> found, opened |-> opened, image |-> image]
NoImage == LibImage({}, NullText)
LoadEnvs == {Env(FALSE, FALSE, NoImage), Env(TRUE, FALSE, NoImage)}
            \cup {Env(TRUE, TRUE, i) : i \in Images}

(* The messages, without the backquotes the source puts around libclang. *)
ErrNotFound == "a libclang shared library could not be found"
ErrCouldNotOpen == "the libclang shared library could not be opened"
ErrNotInUse == "a libclang shared library is not in use in the current thread"
ErrNotLoaded == "a libclang shared library is not loaded on this thread"

Ok(x) == [ok |-> TRUE, val |-> Some(x), err |-> ""]
Err(e) == [ok |-> FALSE, val |-> None, err |-> e]

(* The load::$name functions, run for every function of the catalog: a     *)
(* slot holds the symbol when the library exports it and None otherwise.   *)
LoadFunctions(image) == {name \in Catalog : Exports(image, name)}

(* A load_manually that gives up when a function of the catalog is missing. *)
LoadManuallyStrict(env) ==
    IF ~env.found THEN Err(ErrNotFound)
    ELSE IF ~env.opened THEN Err(ErrCouldNotOpen)
    ELSE IF ~(Catalog \subseteq env.image.exports) THEN Err(ErrCouldNotOpen)
    ELSE Ok([image |-> env.image, functions |-> LoadFunctions(env.image)])

load_manually(env) ==
    IF ~env.found THEN Err(ErrNotFound)
    ELSE IF ~env.opened THEN Err(ErrCouldNotOpen)
    ELSE Ok([image |-> env.image, functions |-> LoadFunctions(env.image)])

(* A slot write that is seen by every thread, as a process-wide static     *)
(* would be.                                                               *)
SetSlotShared(slots, t, library) == [u \in Threads |-> library]

(* LIBRARY.with(|l| mem::replace(&mut *l.borrow_mut(), library)): the write *)
(* to the calling thread's slot.                                           *)
SetSlot(slots, t, library) == [slots EXCEPT ![t] = library]

(* with_library(f): f applied to the library of the slot, if any. *)
HasFunction(slot, name) == IsSome(slot) /\ name \in libs[Unwrap(slot)].functions

(* Arc::clone and the drop of an Option<Arc<SharedLibrary>>. *)
Cloned(counts, handle) ==
    IF IsSome(handle) THEN [counts EXCEPT ![Unwrap(handle)] = @ + 1] ELSE counts
Dropped(counts, handle) ==
    IF IsSome(handle) THEN [counts EXCEPT ![Unwrap(handle)] = @ - 1] ELSE counts

(* The record of an operation of thread t; pre is the value of t's slot    *)
(* when the operation starts, which get_library and set_library return.    *)
Op(t, op) ==
    [t |-> t, op |-> op, name |-> "", pre |-> LIBRARY[t], ok |-> TRUE, msg |-> "",
     flag |-> FALSE, found |-> FALSE, opened |-> FALSE,
     called |-> FALSE, instance |-> ""]

Running(t) == status[t] = "running"

(* A load that is refused while the slot holds a handle. *)
LoadOnlyWhenEmpty(t) ==
    /\ Running(t)
    /\ \E env \in LoadEnvs :
        LET r == IF IsSome(LIBRARY[t]) THEN Err(ErrCouldNotOpen) ELSE load_manually(env)
        IN  IF r.ok
            THEN /\ Len(libs) < MaxLibs
                 /\ libs' = Append(libs, Unwrap(r.val))
                 /\ LIBRARY' = SetSlot(LIBRARY, t, Some(Len(libs) + 1))
                 /\ strong' = Append(strong, 1)
                 /\ last' = [Op(t, "load") EXCEPT !.found = env.found,
                                                  !.opened = env.opened]
            ELSE /\ UNCHANGED <<libs, LIBRARY, strong>>
                 /\ last' = [Op(t, "load") EXCEPT !.found = env.found,
                                                  !.opened = env.opened,
                                                  !.ok = FALSE, !.msg = r.err]
    /\ UNCHANGED <<held, status>>
    /\ UNCHANGED <<selVars, verVars, cmdVars, scanVars>>

(* A load that empties the slot before it looks for a library. *)
LoadClearingFirst(t) ==
    /\ Running(t)
    /\ \E env \in LoadEnvs :
        LET r == load_manually(env)
        IN  IF r.ok
            THEN /\ Len(libs) < MaxLibs
                 /\ libs' = Append(libs, Unwrap(r.val))
                 /\ LIBRARY' = SetSlot(LIBRARY, t, Some(Len(libs) + 1))
                 /\ strong' = Append(Dropped(strong, LIBRARY[t]), 1)
                 /\ last' = [Op(t, "load") EXCEPT !.found = env.found,
                                                  !.opened = env.opened]
            ELSE /\ libs' = libs
                 /\ LIBRARY' = SetSlot(LIBRARY, t, None)
                 /\ strong' = Dropped(strong, LIBRARY[t])
                 /\ last' = [Op(t, "load") EXCEPT !.found = env.found,
                                                  !.opened = env.opened,
                                                  !.ok = FALSE, !.msg = r.err]
    /\ UNCHANGED <<held, status>>
    /\ UNCHANGED <<selVars, verVars, cmdVars, scanVars>>

load(t) ==
    /\ Running(t)
    /\ \E env \in LoadEnvs :
        LET r == load_manually(env)
        IN  IF r.ok
            THEN /\ Len(libs) < MaxLibs
                 /\ libs' = Append(libs, Unwrap(r.val))
                 /\ LIBRARY' = SetSlot(LIBRARY, t, Some(Len(libs) + 1))
                 /\ strong' = Append(Dropped(strong, LIBRARY[t]), 1)
                 /\ last' = [Op(t, "load") EXCEPT !.found = env.found,
                                                  !.opened = env.opened]
            ELSE /\ UNCHANGED <<libs, LIBRARY, strong>>
                 /\ last' = [Op(t, "load") EXCEPT !.found = env.found,
                                                  !.opened = env.opened,
                                                  !.ok = FALSE, !.msg = r.err]
    /\ UNCHANGED <<held, status>>
    /\ UNCHANGED <<selVars, verVars, cmdVars, scanVars>>

set_library(t) ==
    /\ Running(t)
    /\ \E library \in {None, held} :
        /\ LIBRARY' = SetSlot(LIBRARY, t, library)
        /\ strong' = Dropped(Cloned(strong, library), LIBRARY[t])
        /\ last' = Op(t, "set_library")
    /\ UNCHANGED <<libs, held, status>>
    /\ UNCHANGED <<selVars, verVars, cmdVars, scanVars>>

(* An unload that reports success whatever the slot held. *)
UnloadAlwaysOk(t) ==
    /\ Running(t)
    /\ LIBRARY' = SetSlot(LIBRARY, t, None)
    /\ strong' = Dropped(strong, LIBRARY[t])
    /\ last' = Op(t, "unload")
    /\ UNCHANGED <<libs, held, status>>
    /\ UNCHANGED <<selVars, verVars, cmdVars, scanVars>>

unload(t) ==
    /\ Running(t)
    /\ LET library == LIBRARY[t]
       IN  /\ LIBRARY' = SetSlot(LIBRARY, t, None)
           /\ strong' = Dropped(strong, library)
           /\ last' = IF IsSome(library) THEN Op(t, "unload")
                      ELSE [Op(t, "unload") EXCEPT !.ok = FALSE, !.msg = ErrNotInUse]
    /\ UNCHANGED <<libs, held, status>>
    /\ UNCHANGED <<selVars, verVars, cmdVars, scanVars>>

(* A get_library that moves the handle out of the slot. *)
GetLibraryTaking(t) ==
    /\ Running(t)
    /\ held' = LIBRARY[t]
    /\ LIBRARY' = SetSlot(LIBRARY, t, None)
    /\ strong' = Dropped(strong, held)
    /\ last' = Op(t, "get_library")
    /\ UNCHANGED <<libs, status>>
    /\ UNCHANGED <<selVars, verVars, cmdVars, scanVars>>

get_library(t) ==
    /\ Running(t)
    /\ held' = LIBRARY[t]
    /\ strong' = Dropped(Cloned(strong, LIBRARY[t]), held)
    /\ last' = Op(t, "get_library")
    /\ UNCHANGED <<LIBRARY, libs, status>>
    /\ UNCHANGED <<selVars, verVars, cmdVars, scanVars>>

is_loaded(t) ==
    /\ Running(t)
    /\ last' = [Op(t, "is_loaded") EXCEPT !.flag = IsSome(LIBRARY[t])]
    /\ UNCHANGED <<LIBRARY, libs, held, status, strong>>
    /\ UNCHANGED <<selVars, verVars, cmdVars, scanVars>>

(* $name::is_loaded() *)
function_is_loaded(t) ==
    /\ Running(t)
    /\ \E name \in Catalog :
        last' = [Op(t, "function_is_loaded") EXCEPT !.name = name,
                                                   !.flag = HasFunction(LIBRARY[t], name)]
    /\ UNCHANGED <<LIBRARY, libs, held, status, strong>>
    /\ UNCHANGED <<selVars, verVars, cmdVars, scanVars>>

(* The text after "loaded `libclang` instance = " in the wrapper's panic. *)
InstanceText(lib) ==
    LET v == version(lib.image)
    IN  IF IsSome(v) THEN VersionDisplay(Unwrap(v)) ELSE "unsupported version"

(* What a wrapper does for a slot and a function name: calls the function  *)
(* pointer and returns, or panics with a message.                          *)
Outcome(panicked, called, msg, instance) ==
    [panicked |-> panicked, called |-> called, msg |-> msg, instance |-> instance]

(* A wrapper that calls through the slot without looking at it. *)
WrapperUnchecked(slot, name) ==
    IF IsNone(slot) THEN Outcome(TRUE, FALSE, ErrNotLoaded, "")
    ELSE Outcome(FALSE, TRUE, "", "")

Wrapper(slot, name) ==
    IF IsNone(slot) THEN Outcome(TRUE, FALSE, ErrNotLoaded, "")
    ELSE IF name \in libs[Unwrap(slot)].functions
         THEN Outcome(FALSE, TRUE, "", "")
         ELSE Outcome(TRUE, FALSE, "A libclang function was called that is not supported by the loaded libclang instance.",
                      InstanceText(libs[Unwrap(slot)]))

call(t) ==
    /\ Running(t)
    /\ \E name \in Catalog :
        LET r == Wrapper(LIBRARY[t], name)
        IN  /\ last' = [Op(t, "call") EXCEPT !.name = name, !.called = r.called,
                                             !.msg = r.msg, !.instance = r.instance]
            /\ status' = [status EXCEPT ![t] = IF r.panicked THEN "panicked" ELSE @]
    /\ UNCHANGED <<LIBRARY, libs, held, strong>>
    /\ UNCHANGED <<selVars, verVars, cmdVars, scanVars>>

-----------------------------------------------------------------------------
(* Helper commands (build/common.rs, build/static.rs): run_command and the *)
(* thread-local COMMAND_ERRORS, the resolution of the llvm-config path     *)
(* with its thread-local cache, CommandErrorPrinter, the directory search  *)
(* and the static link step.                                               *)

HelperNames == {"llvm-config", "xcode-select"}

(* The argument lists the build script passes to the helpers. *)
ArgPrefix == <<"--prefix">>
ArgSharedMode == <<"--shared-mode">>
ArgLibdir == <<"--libdir">>
ArgLibs == <<"--libs", "--link-static">>
ArgPrintPath == <<"--print-path">>
(* The argument lists of the run_llvm_config calls modelled on their own. *)
LlvmConfigArgs == {ArgPrefix, ArgLibdir}

(* What Command::new(path).args(arguments).output() gave: the process      *)
(* could not be spawned, or exited with a status and its stdout bytes.     *)
(* A byte is a non-blank character "x", a blank " ", a newline "\n", or a  *)
(* byte "bad" that is not valid UTF-8.                                     *)
SpawnError == [spawned |-> FALSE, success |-> FALSE, stdout |-> <<>>]
ExitNonZero == [spawned |-> TRUE, success |-> FALSE, stdout |-> <<>>]
Success(stdout) == [spawned |-> TRUE, success |-> TRUE, stdout |-> stdout]
Stdouts == { <<"x", "\n">>, <<" ", "x", "bad", "\n">> }
Outcomes == {SpawnError, ExitNonZero} \cup {Success(s) : s \in Stdouts}

(* String::from_utf8_lossy: an invalid byte becomes U+FFFD. *)
FromUtf8Lossy(bytes) ==
    [i \in 1..Len(bytes) |-> IF bytes[i] = "bad" THEN "U+FFFD" ELSE bytes[i]]

IsWhitespace(c) == c \in {" ", "\n"}

(* str::trim_end and str::trim *)
RECURSIVE TrimEnd(_)
TrimEnd(s) ==
    IF s # <<>> /\ IsWhitespace(s[Len(s)]) THEN TrimEnd(SubSeq(s, 1, Len(s) - 1)) ELSE s

RECURSIVE TrimStart(_)
TrimStart(s) ==
    IF s # <<>> /\ IsWhitespace(Head(s)) THEN TrimStart(Tail(s)) ELSE s

Trim(s) == TrimStart(TrimEnd(s))

(* str::lines().next(): the text before the first newline, None for "". *)
RECURSIVE UpToNewline(_)
UpToNewline(s) ==
    IF s = <<>> \/ Head(s) = "\n" THEN <<>> ELSE <<Head(s)>> \o UpToNewline(Tail(s))

FirstLine(s) == IF s = <<>> THEN None ELSE Some(UpToNewline(s))

(* The message add_command_error formats:                                  *)
(* "couldn't execute `<name> <arguments>` (path=<path>) (<message>)".      *)
Message(name, arguments, path, message) ==
    [name |-> name, arguments |-> arguments, path |-> path, message |-> message]

(* One thread's COMMAND_ERRORS: a key that is absent has the empty list. *)
NoErrors == [n \in HelperNames |-> <<>>]

(* An add_command_error that keeps only the latest message of a helper. *)
AddCommandErrorReplacing(errors, name, path, arguments, message) ==
    [errors EXCEPT ![name] = <<Message(name, arguments, path, message)>>]

add_command_error(errors, name, path, arguments, message) ==
    [errors EXCEPT ![name] = Append(@, Message(name, arguments, path, message))]

(* A run_command that trims the output it returns. *)
RunCommandTrimmed(errors, name, path, arguments, outcome) ==
    IF ~outcome.spawned
    THEN [out |-> None, errors |-> add_command_error(errors, name, path, arguments, "error")]
    ELSE IF outcome.success
    THEN [out |-> Some(Trim(FromUtf8Lossy(outcome.stdout))), errors |-> errors]
    ELSE [out |-> None, errors |-> add_command_error(errors, name, path, arguments, "exit code")]

run_command(errors, name, path, arguments, outcome) ==
    IF ~outcome.spawned
    THEN [out |-> None, errors |-> add_command_error(errors, name, path, arguments, "error")]
    ELSE IF outcome.success
    THEN [out |-> Some(FromUtf8Lossy(outcome.stdout)), errors |-> errors]
    ELSE [out |-> None, errors |-> add_command_error(errors, name, path, arguments, "exit code")]

(* The systems the one-time search can run on: what `llvm-config --version` *)
(* on PATH gives, the paths the globs match, and what the unversioned ones *)
(* answer.                                                                 *)
System(probe, matches) ==
    [probe |-> probe, matches |-> matches, query |-> [p \in UnversionedPaths |-> NotRun]]
Systems == {System(NotRun, <<>>),
            System(Ran(<<Digits(18), Digits(1), Digits(8)>>), <<>>),
            System(NotRun, <<UsrLibLlvm18>>),
            System(NotRun, <<UsrBinConfig17>>),
            System(NotRun, <<UsrBinConfig17, UsrLibLlvm19_1>>)}

(* What find_llvm_config_uncached returns when it is run now, on each of   *)
(* the systems.                                                            *)
UncachedResults ==
    {FindUncached(testMode, target_version, sys.probe, sys.matches, sys.query).result :
        sys \in Systems}

(* The same on the system the build script runs on. *)
BuildSystem == System(NotRun, <<UsrLibLlvm18>>)
BuildUncached ==
    {FindUncached(testMode, target_version,
                  BuildSystem.probe, BuildSystem.matches, BuildSystem.query).result}

(* A value of LLVM_CONFIG_PATH. *)
CustomLlvmConfig == Path(<<Plain, Plain>>, Comp("llvm-", <<Word>>))

(* find_llvm_config on one thread's LLVM_CONFIG_PATH_CACHE, uncached being *)
(* what find_llvm_config_uncached returns if called: the result, the cache *)
(* afterwards, and whether find_llvm_config_uncached ran.                  *)
find_llvm_config(cache, uncached) ==
    IF IsSome(cache)
    THEN [result |-> Unwrap(cache), cache |-> cache, searched |-> FALSE]
    ELSE [result |-> uncached, cache |-> Some(uncached), searched |-> TRUE]

(* A resolution that asks the cached search before the override. *)
ResolveCacheFirst(override, cache, uncached) ==
    LET f == find_llvm_config(cache, uncached)
    IN  IF IsSome(f.result)
        THEN [path |-> Unwrap(f.result), cache |-> f.cache, searched |-> f.searched]
        ELSE [path |-> IF IsSome(override) THEN Unwrap(override) ELSE BareLlvmConfig,
              cache |-> f.cache, searched |-> f.searched]

resolve_llvm_config_path(override, cache, uncached) ==
    IF IsSome(override)
    THEN [path |-> Unwrap(override), cache |-> cache, searched |-> FALSE]
    ELSE LET f == find_llvm_config(cache, uncached)
         IN  [path |-> IF IsSome(f.result) THEN Unwrap(f.result) ELSE BareLlvmConfig,
              cache |-> f.cache, searched |-> f.searched]

(* The thread-local state a call chain works on, and how many uncached     *)
(* searches it ran.                                                        *)
Tls(errors, cache, searched) == [errors |-> errors, cache |-> cache, searched |-> searched]

RunLlvmConfig(override, tls, uncached, arguments, outcome) ==
    LET resolved == resolve_llvm_config_path(override, tls.cache, uncached)
        ran == run_command(tls.errors, "llvm-config", resolved.path, arguments, outcome)
    IN  [out |-> ran.out, path |-> resolved.path,
         tls |-> Tls(ran.errors, resolved.cache,
                     IF resolved.searched THEN tls.searched + 1 ELSE tls.searched)]

RunXcodeSelect(tls, outcome) ==
    LET xran == run_command(tls.errors, "xcode-select", "xcode-select", ArgPrintPath, outcome)
    IN  [out |-> xran.out, path |-> "xcode-select", tls |-> Tls(xran.errors, tls.cache, tls.searched)]

(* A helper invocation a function makes: which helper, with which          *)
(* arguments, and what the process did.                                    *)
Call(name, arguments, outcome) == [name |-> name, arguments |-> arguments, outcome |-> outcome]

(* The COMMAND_ERRORS a sequence of run_command calls leaves, path being   *)
(* the resolved llvm-config path.                                          *)
RECURSIVE RunAll(_, _, _)
RunAll(errors, path, calls) ==
    IF calls = <<>> THEN errors
    ELSE RunAll(run_command(errors, Head(calls).name,
                            IF Head(calls).name = "llvm-config" THEN path ELSE "xcode-select",
                            Head(calls).arguments, Head(calls).outcome).errors,
                path, Tail(calls))

(* The thread-local state after a sequence of run_llvm_config and          *)
(* run_xcode_select calls: the first run_llvm_config resolves the path and *)
(* fills the cache, the later ones find it there.                          *)
AfterCalls(override, tls, uncached, calls) ==
    IF \A i \in 1..Len(calls) : calls[i].name # "llvm-config"
    THEN Tls(RunAll(tls.errors, BareLlvmConfig, calls), tls.cache, 0)
    ELSE Tls(RunAll(tls.errors, resolve_llvm_config_path(override, tls.cache, uncached).path,
                    calls),
             resolve_llvm_config_path(override, tls.cache, uncached).cache,
             IF resolve_llvm_config_path(override, tls.cache, uncached).searched
             THEN 1 ELSE 0)

(* What the filesystem holds for a directory search: whether the override  *)
(* variable (LIBCLANG_STATIC_PATH) is set, where matching files are, and   *)
(* what the two helpers do when asked for their directory.                 *)
SearchEnv(variable, inVariableDir, inHelperDir, inPatternDir, prefix, xcode) ==
    [variable |-> variable, inVariableDir |-> inVariableDir, inHelperDir |-> inHelperDir,
     inPatternDir |-> inPatternDir, prefix |-> prefix, xcode |-> xcode]

(* output.lines().next().unwrap() panics on an output without any line. *)
NoFirstLine(outcome) ==
    outcome.success /\ IsNone(FirstLine(FromUtf8Lossy(outcome.stdout)))

(* The helper invocations search_libclang_directories makes, in order. *)
SearchCalls(macos, env) ==
    IF env.variable THEN <<>>
    ELSE IF macos /\ ~NoFirstLine(env.prefix)
    THEN <<Call("llvm-config", ArgPrefix, env.prefix),
           Call("xcode-select", ArgPrintPath, env.xcode)>>
    ELSE <<Call("llvm-config", ArgPrefix, env.prefix)>>

SearchPanicked(macos, env) ==
    ~env.variable /\ (NoFirstLine(env.prefix) \/ (macos /\ NoFirstLine(env.xcode)))

SearchFound(macos, env) ==
    IF env.variable THEN env.inVariableDir
    ELSE /\ ~SearchPanicked(macos, env)
         /\ \/ (env.prefix.success \/ (macos /\ env.xcode.success)) /\ env.inHelperDir
            \/ env.inPatternDir

SearchFailed(macos, env) ==
    \E i \in 1..Len(SearchCalls(macos, env)) : ~SearchCalls(macos, env)[i].outcome.success

(* The outcome of search_libclang_directories: whether it returned any     *)
(* file, whether it panicked, whether one of its helper invocations        *)
(* failed, and the thread-local state it leaves.                           *)
Searched(found, panicked, failed, tls) ==
    [found |-> found, panicked |-> panicked, failed |-> failed, tls |-> tls]

SearchLibclangDirectories(override, macos, tls, uncached, env) ==
    Searched(SearchFound(macos, env), SearchPanicked(macos, env), SearchFailed(macos, env),
             AfterCalls(override, tls, uncached, SearchCalls(macos, env)))

-----------------------------------------------------------------------------
(* The filesystem scanner (search_directory, search_directories) and the   *)
(* directories search_libclang_directories gives it.  A file name is a     *)
(* sequence of pieces: "libclang-cpp.so.10" is                             *)
(* <<"libclang", "-", "cpp", ".", "so", ".", "10">>.  A glob pattern is    *)
(* such a sequence in which "*" stands for any run of pieces.              *)

LibclangA == <<"libclang", ".", "a">>
LibclangBasicA == <<"libclangBasic", ".", "a">>
LibclangSo10 == <<"libclang", ".", "so", ".", "10">>
LibclangCppSo10 == <<"libclang", "-", "cpp", ".", "so", ".", "10">>
LibclangCppA == <<"libclang", "-", "cpp", ".", "a">>
FileNames == {LibclangA, LibclangSo10, LibclangCppSo10, LibclangCppA}

(* The patterns static find() passes, and patterns with wildcards. *)
StaticPatterns == <<LibclangA, LibclangBasicA>>
WidePatterns == << <<"libclang", "*", ".", "a">>, <<"libclang", "*", ".", "so", ".", "*">> >>
PatternSets == {StaticPatterns, WidePatterns}

CppInfix == <<"-", "cpp", ".">>

(* str::contains *)
Contains(name, infix) ==
    \E i \in 1..(Len(name) + 1 - Len(infix)) : SubSeq(name, i, i + Len(infix) - 1) = infix

(* glob::Pattern::matches for a file name (no separator in it). *)
RECURSIVE GlobMatch(_, _)
GlobMatch(pattern, name) ==
    IF pattern = <<>> THEN name = <<>>
    ELSE IF Head(pattern) = "*"
    THEN \/ GlobMatch(Tail(pattern), name)
         \/ name # <<>> /\ GlobMatch(pattern, Tail(name))
    ELSE /\ name # <<>>
         /\ Head(name) = Head(pattern)
         /\ GlobMatch(Tail(pattern), Tail(name))

(* paths.map(|p| glob::glob_with(&p, options)).filter_map(Result::ok)      *)
(* .flatten(): the files of the directory each pattern matches, pattern    *)
(* after pattern.                                                          *)
RECURSIVE GlobAll(_, _, _)
GlobAll(fs, directory, filenames) ==
    IF filenames = <<>> THEN <<>>
    ELSE SelectSeq(fs[directory], LAMBDA name : GlobMatch(Head(filenames), name))
         \o GlobAll(fs, directory, Tail(filenames))

(* (path.parent().unwrap().to_owned(), filename.into()) *)
Entry(directory, filename) == [directory |-> directory, filename |-> filename]
Entries(directory, names) == [i \in 1..Len(names) |-> Entry(directory, names[i])]

(* A scanner that returns every file a pattern matches. *)
SearchDirectoryUnfiltered(fs, directory, filenames) ==
    Entries(directory, GlobAll(fs, directory, filenames))

search_directory(fs, directory, filenames) ==
    Entries(directory, SelectSeq(GlobAll(fs, directory, filenames),
                                 LAMBDA name : ~Contains(name, CppInfix)))

(* search_directories on a target that is not Windows. *)
search_directories(fs, directory, filenames) == search_directory(fs, directory, filenames)

(* The override path: its Path::parent(), its Path::file_name() and the    *)
(* directory the path itself names (one without files when it names a      *)
(* file).                                                                  *)
OverridePath(parent, file_name, dir) == [parent |-> parent, file_name |-> file_name, dir |-> dir]

(* What a call did: whether it panicked, the Vec it returned, the          *)
(* directories it gave the scanner and the helper invocations it made.     *)
Scan(panicked, found, searched, calls) ==
    [panicked |-> panicked, found |-> found, searched |-> searched, calls |-> calls]

(* The branch taken when the variable is set. *)
SearchOverride(fs, path, filenames) ==
    IF IsSome(path.parent) /\ IsNone(path.file_name)
    THEN Scan(TRUE, <<>>, <<>>, <<>>)    \* path.file_name().unwrap()
    ELSE IF /\ IsSome(path.parent)
            /\ \E i \in 1..Len(search_directories(fs, Unwrap(path.parent), filenames)) :
                 search_directories(fs, Unwrap(path.parent), filenames)[i].filename
                     = Unwrap(path.file_name)
    THEN Scan(FALSE, <<Entry(Unwrap(path.parent), Unwrap(path.file_name))>>,
              <<Unwrap(path.parent)>>, <<>>)
    ELSE Scan(FALSE, search_directories(fs, path.dir, filenames),
              (IF IsSome(path.parent) THEN <<Unwrap(path.parent)>> ELSE <<>>) \o <<path.dir>>,
              <<>>)

(* The directories searched when the variable is not set, on Linux: bin,   *)
(* lib and lib64 under the prefix llvm-config printed, the entries of      *)
(* LD_LIBRARY_PATH, the directories the patterns of DIRECTORIES_LINUX      *)
(* match.                                                                  *)
PrefixDirs == <<"prefix/bin", "prefix/lib", "prefix/lib64">>
LdLibraryPath == <<"ld">>
PatternDirs == <<"usr/lib">>
SearchedDirs(prefix) ==
    (IF prefix.success THEN PrefixDirs ELSE <<>>) \o LdLibraryPath \o PatternDirs

RECURSIVE SearchAll(_, _, _)
SearchAll(fs, dirs, filenames) ==
    IF dirs = <<>> THEN <<>>
    ELSE search_directories(fs, Head(dirs), filenames) \o SearchAll(fs, Tail(dirs), filenames)

SearchLibclangFiles(fs, filenames, variable, prefix) ==
    IF IsSome(variable) THEN SearchOverride(fs, Unwrap(variable), filenames)
    ELSE IF NoFirstLine(prefix)
    THEN Scan(TRUE, <<>>, <<>>, <<Call("llvm-config", ArgPrefix, prefix)>>)
    ELSE Scan(FALSE, SearchAll(fs, SearchedDirs(prefix), filenames), SearchedDirs(prefix),
              <<Call("llvm-config", ArgPrefix, prefix)>>)

(* One call of search_libclang_directories. *)
search_libclang_files ==
    /\ scanOut = None
    /\ scanOut' = Some(SearchLibclangFiles(scanFs, scanFilenames, scanVariable, scanPrefix))
    /\ UNCHANGED <<scanFs, scanFilenames, scanVariable, scanPrefix>>
    /\ UNCHANGED <<selVars, verVars, regVars, cmdVars, keyVars>>

(* Drop for CommandErrorPrinter: per helper the messages of the warning it *)
(* prints, none when the printer was discarded or the key is absent.       *)
NothingPrinted == [n \in HelperNames |-> <<>>]
DropPrinter(errors, discard) == IF discard THEN NothingPrinted ELSE errors

(* The helper invocations static link() makes after find(): --shared-mode, *)
(* --libdir and, unless the unwrap of --libdir panicked, --libs.           *)
LinkCalls(sharedOut, libdirOut, libsOut) ==
    IF libdirOut.success
    THEN <<Call("llvm-config", ArgSharedMode, sharedOut),
           Call("llvm-config", ArgLibdir, libdirOut),
           Call("llvm-config", ArgLibs, libsOut)>>
    ELSE <<Call("llvm-config", ArgSharedMode, sharedOut),
           Call("llvm-config", ArgLibdir, libdirOut)>>

(* The outcome of static link(): whether it ran to its end (and discarded  *)
(* the printer) or panicked, whether find() got a directory, whether one   *)
(* of the helper invocations failed, the thread-local state it leaves and  *)
(* what the printer printed.                                               *)
Linked(completed, found, failed, tls) ==
    [completed |-> completed, found |-> found, failed |-> failed, tls |-> tls,
     printed |-> DropPrinter(tls.errors, completed)]

StaticLink(override, macos, tls, uncached, env, sharedOut, libdirOut, libsOut) ==
    IF ~SearchFound(macos, env)
    THEN Linked(FALSE, FALSE, SearchFailed(macos, env),
                AfterCalls(override, tls, uncached, SearchCalls(macos, env)))
    ELSE Linked(libdirOut.success /\ libsOut.success, TRUE,
                SearchFailed(macos, env) \/ ~sharedOut.success \/ ~libdirOut.success
                    \/ ~libsOut.success,
                AfterCalls(override, tls, uncached,
                           SearchCalls(macos, env) \o LinkCalls(sharedOut, libdirOut, libsOut)))

(* The build script runs on one thread; the path resolution is also used   *)
(* by the runtime loader, on any thread.                                   *)
BuildThreads == {"t1"}

(* The thread-local state of thread t, and its write-back. *)
ThreadTls(t) == Tls(COMMAND_ERRORS[t], LLVM_CONFIG_PATH_CACHE[t], 0)

TotalErrors(errors) == Len(errors["llvm-config"]) + Len(errors["xcode-select"])

Commit(t, tls) ==
    /\ TotalErrors(tls.errors) <= MaxErrors
    /\ COMMAND_ERRORS' = [COMMAND_ERRORS EXCEPT ![t] = tls.errors]
    /\ LLVM_CONFIG_PATH_CACHE' = [LLVM_CONFIG_PATH_CACHE EXCEPT ![t] = tls.cache]
    /\ searchRuns' = searchRuns + tls.searched

(* The results a call on thread t can tell apart: only a call that runs    *)
(* the uncached search sees one.                                           *)
UncachedFor(t) ==
    IF IsSome(LLVM_CONFIG_PATH) \/ IsSome(LLVM_CONFIG_PATH_CACHE[t])
    THEN {None}
    ELSE BuildUncached

SearchEnvs ==
    {SearchEnv(TRUE, v, FALSE, FALSE, SpawnError, SpawnError) : v \in BOOLEAN}
    \cup {SearchEnv(FALSE, FALSE, w[1], w[2], p, x) :
            w \in {<<FALSE, FALSE>>, <<TRUE, FALSE>>, <<FALSE, TRUE>>},
            p \in {SpawnError, Success(<<"x", "\n">>), Success(<<>>)},
            x \in IF targetMacos THEN {ExitNonZero, Success(<<"x", "\n">>)} ELSE {SpawnError}}

(* The outcomes of --shared-mode, --libdir and --libs in one link(). *)
AllSucceed == <<Success(<<"x", "\n">>), Success(<<"x", "\n">>), Success(<<"x", "\n">>)>>
LinkTails == {AllSucceed,
              <<ExitNonZero, Success(<<"x", "\n">>), Success(<<"x", "\n">>)>>,
              <<Success(<<"x", "\n">>), SpawnError, Success(<<"x", "\n">>)>>,
              <<Success(<<"x", "\n">>), Success(<<"x", "\n">>), ExitNonZero>>}

(* The record of a helper operation: the stdout the helper wrote (when it  *)
(* succeeded), the text or path returned, whether files were found, the    *)
(* operation ran to its end, a helper invocation failed, and how many      *)
(* messages per helper the printer printed.                                *)
CmdOp(t, op) ==
    [t |-> t, op |-> op, stdout |-> <<>>, out |-> None,
     path |-> BareLlvmConfig, found |-> FALSE, completed |-> TRUE, failed |-> FALSE,
     printed |-> [n \in HelperNames |-> 0]]

Building(t) == buildStatus[t] = "running"

run_llvm_config(t) ==
    /\ Building(t)
    /\ \E arguments \in LlvmConfigArgs, uncached \in UncachedFor(t), outcome \in Outcomes :
         \E invoked \in {RunLlvmConfig(LLVM_CONFIG_PATH, ThreadTls(t), uncached, arguments, outcome)} :
             /\ Commit(t, invoked.tls)
             /\ cmdLast' = [CmdOp(t, "run_llvm_config") EXCEPT
                               !.stdout = outcome.stdout,
                               !.out = invoked.out, !.path = invoked.path, !.failed = ~outcome.success]
    /\ UNCHANGED <<targetMacos, LLVM_CONFIG_PATH, discardedUpTo, buildStatus>>
    /\ UNCHANGED <<selVars, verVars, regVars, scanVars>>

run_xcode_select(t) ==
    /\ Building(t)
    /\ \E outcome \in Outcomes :
         \E xcall \in {RunXcodeSelect(ThreadTls(t), outcome)} :
             /\ Commit(t, xcall.tls)
             /\ cmdLast' = [CmdOp(t, "run_xcode_select") EXCEPT
                               !.stdout = outcome.stdout,
                               !.out = xcall.out, !.failed = ~outcome.success]
    /\ UNCHANGED <<targetMacos, LLVM_CONFIG_PATH, discardedUpTo, buildStatus>>
    /\ UNCHANGED <<selVars, verVars, regVars, scanVars>>

search_libclang_directories(t) ==
    /\ Building(t)
    /\ \E uncached \in UncachedFor(t), env \in SearchEnvs :
         \E dirs \in {SearchLibclangDirectories(LLVM_CONFIG_PATH, targetMacos,
                                            ThreadTls(t), uncached, env)} :
             /\ Commit(t, dirs.tls)
             /\ buildStatus' = [buildStatus EXCEPT
                                   ![t] = IF dirs.panicked THEN "panicked" ELSE @]
             /\ cmdLast' = [CmdOp(t, "search_libclang_directories") EXCEPT
                               !.found = dirs.found, !.completed = ~dirs.panicked,
                               !.failed = dirs.failed]
    /\ UNCHANGED <<targetMacos, LLVM_CONFIG_PATH, discardedUpTo>>
    /\ UNCHANGED <<selVars, verVars, regVars, scanVars>>

link(t) ==
    /\ Building(t)
    /\ \E uncached \in UncachedFor(t), env \in SearchEnvs :
       \E tail \in IF SearchFound(targetMacos, env) THEN LinkTails ELSE {AllSucceed} :
         \E linked \in {StaticLink(LLVM_CONFIG_PATH, targetMacos, ThreadTls(t), uncached, env,
                             tail[1], tail[2], tail[3])} :
             /\ Commit(t, linked.tls)
             /\ buildStatus' = [buildStatus EXCEPT
                                   ![t] = IF linked.completed THEN @ ELSE "panicked"]
             /\ discardedUpTo' =
                    IF linked.completed
                    THEN [discardedUpTo EXCEPT
                             ![t] = [n \in HelperNames |-> Len(linked.tls.errors[n])]]
                    ELSE discardedUpTo
             /\ cmdLast' = [CmdOp(t, "link") EXCEPT
                               !.found = linked.found, !.completed = linked.completed,
                               !.failed = linked.failed,
                               !.printed = [n \in HelperNames |-> Len(linked.printed[n])]]
    /\ UNCHANGED <<targetMacos, LLVM_CONFIG_PATH>>
    /\ UNCHANGED <<selVars, verVars, regVars, scanVars>>

(* A call of resolve_llvm_config_path on thread t. *)
resolve(t) ==
    /\ \E uncached \in UncachedResults :
         \E res \in {resolve_llvm_config_path(LLVM_CONFIG_PATH, LLVM_CONFIG_PATH_CACHE[t], uncached)} :
             /\ LLVM_CONFIG_PATH_CACHE' = [LLVM_CONFIG_PATH_CACHE EXCEPT ![t] = res.cache]
             /\ searchRuns' = searchRuns + IF res.searched THEN 1 ELSE 0
             /\ cmdLast' = [CmdOp(t, "resolve_llvm_config_path") EXCEPT !.path = res.path]
    /\ UNCHANGED <<targetMacos, LLVM_CONFIG_PATH, COMMAND_ERRORS, discardedUpTo, buildStatus>>
    /\ UNCHANGED <<selVars, verVars, regVars, scanVars>>

-----------------------------------------------------------------------------
SeqsUpTo(S, n) == UNION {[1..k -> S] : k \in 0..n}

Targets == {None, Some(17), Some(18), Some(19)}

SelIdle ==
    /\ testMode = FALSE
    /\ target_version = None
    /\ pathProbe = NotRun
    /\ fsMatches = <<>>
    /\ queryOut = <<>>
    /\ selDone = TRUE
    /\ candidates = <<>>
    /\ selResult = None
    /\ diagnostic = NoDiagnostic
    /\ selEffects = NoEffects

VerIdle ==
    /\ verLib = LibImage({}, NullText)
    /\ verDone = TRUE
    /\ verOut = None
    /\ verStr = None

RegIdle ==
    /\ LIBRARY = <<>>
    /\ libs = <<>>
    /\ held = <<>>
    /\ status = <<>>
    /\ last = <<>>
    /\ strong = <<>>

KeyIdle ==
    /\ keyPath = BareLlvmConfig
    /\ keyOut = None

DirIdle ==
    /\ scanFs = <<>>
    /\ scanFilenames = <<>>
    /\ scanVariable = None
    /\ scanPrefix = SpawnError
    /\ scanOut = None

ScanIdle == KeyIdle /\ DirIdle

CmdIdle ==
    /\ targetMacos = FALSE
    /\ LLVM_CONFIG_PATH = None
    /\ COMMAND_ERRORS = <<>>
    /\ LLVM_CONFIG_PATH_CACHE = <<>>
    /\ searchRuns = 0
    /\ discardedUpTo = <<>>
    /\ buildStatus = <<>>
    /\ cmdLast = <<>>

InitSel ==
    /\ testMode \in BOOLEAN
    /\ target_version \in Targets
    /\ pathProbe \in VersionOutputs
    /\ fsMatches \in SeqsUpTo(Paths, MaxCand)
    /\ queryOut \in [UnversionedPaths -> {NotRun, Ran(<<Digits(18), Digits(1), Digits(8)>>),
                                          Ran(<<Digits(19), Digits(1), Digits(0)>>)}]
    /\ selDone = FALSE
    /\ candidates = <<>>
    /\ selResult = None
    /\ diagnostic = NoDiagnostic
    /\ selEffects = NoEffects
    /\ VerIdle
    /\ RegIdle
    /\ CmdIdle
    /\ ScanIdle

NextSel == find_llvm_config_uncached

SpecSel == InitSel /\ [][NextSel]_vars

InitVer ==
    /\ verLib \in {LibImage(m \cup f, t) :
                        m \in {x \in SUBSET Markers : Cardinality(x) <= MaxMarkers},
                        f \in SUBSET StringFns,
                        t \in Texts}
    /\ verDone = FALSE
    /\ verOut = None
    /\ verStr = None
    /\ SelIdle
    /\ RegIdle
    /\ CmdIdle
    /\ ScanIdle

Init ==
    /\ LIBRARY = [t \in Threads |-> None]
    /\ libs = <<>>
    /\ held = None
    /\ status = [t \in Threads |-> "running"]
    /\ last = [t |-> "t1", op |-> "start", name |-> "", pre |-> None, ok |-> TRUE,
               msg |-> "", flag |-> FALSE, found |-> FALSE,
               opened |-> FALSE, called |-> FALSE, instance |-> ""]
    /\ strong = <<>>
    /\ SelIdle
    /\ VerIdle
    /\ CmdIdle
    /\ ScanIdle

Next ==
    \E t \in Threads :
        \/ load(t)
        \/ unload(t)
        \/ get_library(t)
        \/ set_library(t)
        \/ is_loaded(t)
        \/ function_is_loaded(t)
        \/ call(t)

Spec == Init /\ [][Next]_vars

NextVer == version_call

SpecVer == InitVer /\ [][NextVer]_vars

InitCmd ==
    /\ targetMacos \in BOOLEAN
    /\ LLVM_CONFIG_PATH \in {None, Some(CustomLlvmConfig)}
    /\ COMMAND_ERRORS = [t \in BuildThreads |-> NoErrors]
    /\ LLVM_CONFIG_PATH_CACHE = [t \in BuildThreads |-> None]
    /\ searchRuns = 0
    /\ discardedUpTo = [t \in BuildThreads |-> [n \in HelperNames |-> 0]]
    /\ buildStatus = [t \in BuildThreads |-> "running"]
    /\ cmdLast = CmdOp("t1", "start")
    /\ SelIdle
    /\ VerIdle
    /\ RegIdle
    /\ ScanIdle

NextCmd ==
    \E t \in BuildThreads :
        \/ run_llvm_config(t)
        \/ run_xcode_select(t)
        \/ search_libclang_directories(t)
        \/ link(t)

SpecCmd == InitCmd /\ [][NextCmd]_vars

InitCache ==
    /\ testMode \in BOOLEAN
    /\ target_version \in {None, Some(17), Some(18)}
    /\ pathProbe = NotRun
    /\ fsMatches = <<>>
    /\ queryOut = <<>>
    /\ selDone = TRUE
    /\ candidates = <<>>
    /\ selResult = None
    /\ diagnostic = NoDiagnostic
    /\ selEffects = NoEffects
    /\ targetMacos = FALSE
    /\ LLVM_CONFIG_PATH \in {None, Some(CustomLlvmConfig)}
    /\ COMMAND_ERRORS = [t \in Threads |-> NoErrors]
    /\ LLVM_CONFIG_PATH_CACHE = [t \in Threads |-> None]
    /\ searchRuns = 0
    /\ discardedUpTo = [t \in Threads |-> [n \in HelperNames |-> 0]]
    /\ buildStatus = [t \in Threads |-> "running"]
    /\ cmdLast = CmdOp("t1", "start")
    /\ VerIdle
    /\ RegIdle
    /\ ScanIdle

NextCache == \E t \in Threads : resolve(t)

SpecCache == InitCache /\ [][NextCache]_vars

(* The directory and file names extract_version_from_llvm_path meets:      *)
(* plain names, llvm-18, llvm-19.1, llvm@17, llvm@rc, llvm-rc.5, a number  *)
(* above u32::MAX, and a directory called llvm-config-16; as file names    *)
(* llvm-config, llvm-config-17, llvm-config-17.0.6, llvm-config-git,       *)
(* llvm-config-<above u32::MAX>, llvm-18 and a plain name.                 *)
KeyDirs == {Plain, Comp("llvm-", <<Digits(18)>>), Comp("llvm-", <<Digits(19), Digits(1)>>),
            Comp("llvm@", <<Digits(17)>>), Comp("llvm@", <<Word>>),
            Comp("llvm-", <<Word, Digits(5)>>), Comp("llvm-", <<Huge>>),
            Comp("llvm-config-", <<Digits(16)>>)}
KeyFiles == {Comp("llvm-", <<Word>>), Comp("llvm-config-", <<Digits(17)>>),
             Comp("llvm-config-", <<Digits(17), Digits(0), Digits(6)>>),
             Comp("llvm-config-", <<Word>>), Comp("llvm-config-", <<Huge>>),
             Comp("llvm-", <<Digits(18)>>), Plain}

InitKey ==
    /\ keyPath \in {Path(d, f) : d \in SeqsUpTo(KeyDirs, MaxDirs), f \in KeyFiles}
    /\ keyOut = None
    /\ DirIdle
    /\ SelIdle
    /\ VerIdle
    /\ RegIdle
    /\ CmdIdle

NextKey == extract_version_call

(* The directories of the model's filesystem and what they can hold.  The  *)
(* override variable names a file in "parent" (/parent/<name>), or the     *)
(* directory "override" by a path with a file name (/parent/lib), by a     *)
(* path that ends in `..` or is `.` (a parent, no file name), or by a path *)
(* with neither (/ or the empty string).                                   *)
Dirs == {"parent", "override", "prefix/bin", "prefix/lib", "prefix/lib64", "ld", "usr/lib"}
Contents == SeqsUpTo(FileNames, MaxFiles)
Installed == <<LibclangA, LibclangCppA, LibclangSo10>>
FileOverrides == {OverridePath(Some("parent"), Some(name), "override") : name \in FileNames}
DirOverrides == {OverridePath(Some("parent"), Some(<<"lib">>), "override"),
                 OverridePath(Some("parent"), None, "override"),
                 OverridePath(None, None, "override")}
Filesystem(parent, override, ld) ==
    [d \in Dirs |-> CASE d = "parent" -> parent
                      [] d = "override" -> override
                      [] d = "ld" -> ld
                      [] OTHER -> Installed]

InitScan ==
    /\ scanFilenames \in PatternSets
    /\ \/ /\ scanVariable \in {Some(o) : o \in FileOverrides}
          /\ scanFs \in {Filesystem(c, <<>>, Installed) : c \in Contents}
          /\ scanPrefix = SpawnError
       \/ /\ scanVariable \in {Some(o) : o \in DirOverrides}
          /\ scanFs \in {Filesystem(c, d, Installed) : c \in Contents, d \in Contents}
          /\ scanPrefix = SpawnError
       \/ /\ scanVariable = None
          /\ scanFs \in {Filesystem(<<>>, <<>>, c) : c \in Contents}
          /\ scanPrefix \in {SpawnError, Success(<<"x", "\n">>), Success(<<>>)}
    /\ scanOut = None
    /\ KeyIdle
    /\ SelIdle
    /\ VerIdle
    /\ RegIdle
    /\ CmdIdle

NextScan == search_libclang_files

SpecScan == InitScan /\ [][NextScan]_vars

SpecKey == InitKey /\ [][NextKey]_vars

-----------------------------------------------------------------------------
(* Claims about find_llvm_config_uncached, checked under SpecSel.          *)

Major(c) == c.version[1]
MatchingIdx(t) == {i \in 1..Len(candidates) : Major(candidates[i]) = t}
MinOf(S) == CHOOSE i \in S : \A j \in S : i <= j
SearchedWithTarget == selDone /\ IsSome(target_version) /\ candidates # <<>>
SearchedNoTarget == selDone /\ IsNone(target_version) /\ candidates # <<>>

C2_HighestEarliest ==
    SearchedNoTarget =>
        \E i \in 1..Len(candidates) :
            /\ selResult = Some(candidates[i].path)
            /\ \A j \in 1..Len(candidates) :
                    ~VecLess(candidates[i].version, candidates[j].version)
            /\ \A j \in 1..(i - 1) :
                    VecLess(candidates[j].version, candidates[i].version)

(* C2 witness: two different paths tie on the maximal key and the earlier  *)
(* discovered one is returned.                                             *)
C2_Witness ==
    /\ SearchedNoTarget
    /\ Len(candidates) >= 2
    /\ candidates[1].version = candidates[2].version
    /\ candidates[1].path # candidates[2].path
    /\ selResult = Some(candidates[1].path)

-----------------------------------------------------------------------------
(* Claims about SharedLibrary::version, checked under SpecVer.             *)

ExportedMarkerVersions(lib) ==
    {MarkerChecks[i].version : i \in {j \in 1..Len(MarkerChecks) :
                                        MarkerChecks[j].symbol \in lib.exports}}

(* The major that the text returned by clang_getClangVersion carries in    *)
(* its third word, if the library has such a text.                         *)
SelfReportedMajor(lib) ==
    IF "clang_getClangVersion" \in lib.exports /\ ~lib.text.null /\ lib.text.utf8
       /\ Len(lib.text.words) >= 3
       /\ lib.text.words[3][1].num /\ ~lib.text.words[3][1].big
    THEN Some(lib.text.words[3][1].val)
    ELSE None

SupportedMajor(lib) ==
    IsSome(SelfReportedMajor(lib)) /\ Unwrap(SelfReportedMajor(lib)) >= 4

(* C7: for every marker symbol the library exports, version() returns a    *)
(* release line at least the minimum release of that marker, whatever the  *)
(* version text of the library is.                                         *)
C7_NeverBelowMarker ==
    verDone =>
        \A v \in ExportedMarkerVersions(verLib) :
            IsSome(verOut) /\ Unwrap(verOut) >= v

(* C10 as stated: when the library exports the 21-and-newer marker and its *)
(* self-reported version text parses to a supported major, version()       *)
(* returns the release line of that major: 22 gives V22_0, 23 or more      *)
(* gives V23_0.                                                            *)
C10_ParsedMajorReturned ==
    (verDone /\ "clang_getFullyQualifiedName" \in verLib.exports /\ SupportedMajor(verLib)) =>
        LET major == Unwrap(SelfReportedMajor(verLib))
        IN  /\ verOut = MapMajor(major)
            /\ major = 22 => verOut = Some(V22_0)
            /\ major >= 23 => verOut = Some(V23_0)

(* C10 amended: the same, for a library that also exports clang_getCString *)
(* and clang_disposeString, the two other functions string parsing needs.  *)
C10_ParsedMajorReturnedWithStringFns ==
    (verDone /\ "clang_getFullyQualifiedName" \in verLib.exports /\ SupportedMajor(verLib)
     /\ StringFns \subseteq verLib.exports) =>
        LET major == Unwrap(SelfReportedMajor(verLib))
        IN  /\ verOut = MapMajor(major)
            /\ major = 22 => verOut = Some(V22_0)
            /\ major >= 23 => verOut = Some(V23_0)

(* C10 witness: the 21-and-newer marker with "clang version 22.0.3" has    *)
(* been classified as V22_0.                                               *)
C10_Witness ==
    /\ verDone
    /\ "clang_getFullyQualifiedName" \in verLib.exports
    /\ StringFns \subseteq verLib.exports
    /\ verLib.text = ClangVersion(22)
    /\ verOut = Some(V22_0)

(* The check of the newest marker the library exports: the first one the   *)
(* library exports in the newest-first list.                               *)
ExportedChecks(lib) == {i \in 1..Len(MarkerChecks) : MarkerChecks[i].symbol \in lib.exports}
NewestExported(lib) == MarkerChecks[MinOf(ExportedChecks(lib))]

(* C11: when the newest marker the library exports is one of a single      *)
(* release line, version() returns exactly that line, whatever string      *)
(* functions, version text and older markers the library has.              *)
C11_FirstMarkerDecides ==
    (verDone /\ ExportedChecks(verLib) # {} /\ ~NewestExported(verLib).parse) =>
        verOut = Some(NewestExported(verLib).version)

(* C11 witness: the release-19 marker and an older one, no string          *)
(* function at all, classified as V19_0.                                   *)
C11_Witness ==
    /\ verDone
    /\ verLib.exports = {"clang_Cursor_getBinaryOpcode", "clang_CXXMethod_isExplicit"}
    /\ verOut = Some(V19_0)

(* C12: a library that exports no marker symbol is classified as None,     *)
(* also when it exports the string functions and its text would parse.     *)
C12_NoMarkerNoVersion ==
    (verDone /\ ExportedChecks(verLib) = {}) => verOut = None

(* C12 witness: no marker, all three string functions, the text            *)
(* "clang version 18.0.3", classified as None.                             *)
C12_Witness ==
    /\ verDone
    /\ verLib.exports = StringFns
    /\ verLib.text = ClangVersion(18)
    /\ verOut = None

(* String parsing fails on this library: a string function is missing, the *)
(* text is null or not UTF-8, its third word does not start with a u32, or *)
(* that major is below the oldest mapped one.                              *)
TextMajor(text) ==
    IF ~text.null /\ text.utf8 /\ Len(text.words) >= 3
       /\ text.words[3][1].num /\ ~text.words[3][1].big
    THEN Some(text.words[3][1].val)
    ELSE None

StringParsingFails(lib) ==
    \/ ~(StringFns \subseteq lib.exports)
    \/ IsNone(TextMajor(lib.text))
    \/ Unwrap(TextMajor(lib.text)) < 4

(* C13: when the newest exported marker is one of the two parsed lines and *)
(* string parsing fails at any step, version() returns the release of the  *)
(* marker (V21_0 or V17_0), never None.                                    *)
C13_ParseFailureFallsBack ==
    (verDone /\ ExportedChecks(verLib) # {} /\ NewestExported(verLib).parse
     /\ StringParsingFails(verLib)) =>
        /\ verOut = Some(NewestExported(verLib).version)
        /\ verOut \in {Some(V21_0), Some(V17_0)}

(* C13 witness: the release-17 marker with a null version text has been    *)
(* classified as V17_0.                                                    *)
C13_Witness ==
    /\ verDone
    /\ verLib.exports = {"clang_CXXMethod_isExplicit"} \cup StringFns
    /\ verLib.text = NullText
    /\ verOut = Some(V17_0)

(* C14: whenever version_from_string obtained a CXString from              *)
(* clang_getClangVersion, it passed it to clang_disposeString exactly once *)
(* before returning.                                                       *)
C14_HandleReleased ==
    (verDone /\ IsSome(verStr) /\ Unwrap(verStr).obtained) => Unwrap(verStr).disposed = 1

-----------------------------------------------------------------------------
(* Claims about the registry, checked under Spec.                          *)

(* C4: unload leaves the calling thread's slot empty; it returns Ok        *)
(* exactly when the slot held a handle immediately before the call, and    *)
(* otherwise the error "a `libclang` shared library is not in use in the   *)
(* current thread"; a successful load leaves a handle in the slot, so load *)
(* then unload succeeds and returns the slot to empty.                     *)
C4_UnloadRoundTrip ==
    /\ last.op = "unload" =>
            /\ LIBRARY[last.t] = None
            /\ last.ok <=> IsSome(last.pre)
            /\ ~last.ok => last.msg = "a libclang shared library is not in use in the current thread"
    /\ (last.op = "load" /\ last.ok) => IsSome(LIBRARY[last.t])

(* C4 witness: an unload on an empty slot has just failed on a thread      *)
(* after a library had been loaded.                                        *)
C4_Witness ==
    /\ last.op = "unload"
    /\ ~last.ok
    /\ last.pre = None
    /\ Len(libs) >= 1
    /\ LIBRARY[last.t] = None

(* C5: a load that fails, because no library file is found or because the  *)
(* file cannot be opened, returns an error, does not panic and leaves the  *)
(* calling thread's slot as it was before the call.                        *)
C5_FailedLoadKeepsSlot ==
    (last.op = "load" /\ ~(last.found /\ last.opened)) =>
        /\ ~last.ok
        /\ last.msg = (IF last.found THEN ErrCouldNotOpen ELSE ErrNotFound)
        /\ status[last.t] = "running"
        /\ LIBRARY[last.t] = last.pre

(* C5 witness: the open of a found file was rejected while the thread had  *)
(* a library loaded, and the thread still has it.                          *)
C5_Witness ==
    /\ last.op = "load"
    /\ last.found
    /\ ~last.opened
    /\ ~last.ok
    /\ IsSome(last.pre)
    /\ LIBRARY[last.t] = last.pre

(* C6: an operation of one thread never changes the slot of another        *)
(* thread, and is_loaded returns whether the calling thread's own slot     *)
(* holds a handle.                                                         *)
C6_SlotPerThread ==
    [][/\ \A u \in Threads : u # last'.t => LIBRARY'[u] = LIBRARY[u]
       /\ last'.op = "is_loaded" => (last'.flag <=> IsSome(LIBRARY'[last'.t]))]_vars

(* C6 witness: is_loaded has returned false on a thread while the other    *)
(* thread has a library loaded.                                            *)
C6_Witness ==
    /\ last.op = "is_loaded"
    /\ ~last.flag
    /\ \E u \in Threads : u # last.t /\ IsSome(LIBRARY[u])

(* C8: a wrapper called on a thread whose loaded library has no pointer    *)
(* for that function calls no function pointer and panics; the panic names *)
(* the function and the detected version, or "unsupported version" when    *)
(* the library exports no marker.                                          *)
C8_MissingFunctionPanics ==
    (last.op = "call" /\ IsSome(last.pre)
     /\ last.name \notin libs[Unwrap(last.pre)].image.exports) =>
        /\ ~last.called
        /\ status[last.t] = "panicked"
        /\ last.msg = "A libclang function was called that is not supported by the loaded libclang instance."
        /\ last.name \in Catalog
        /\ LET image == libs[Unwrap(last.pre)].image
           IN  /\ image.exports \cap Markers = {} => last.instance = "unsupported version"
               /\ "clang_Cursor_getBinaryOpcode" \in image.exports
                  /\ image.exports \cap {"clang_getFullyQualifiedName", "clang_getOffsetOfBase"} = {}
                        => last.instance = "19.0.x"

(* C8 witness: a wrapper has panicked on a release 19 library that lacks   *)
(* the called function.                                                    *)
C8_Witness ==
    /\ last.op = "call"
    /\ IsSome(last.pre)
    /\ last.name \notin libs[Unwrap(last.pre)].image.exports
    /\ last.instance = "19.0.x"
    /\ status[last.t] = "panicked"

(* C9: a load whose file is found and opened succeeds whatever subset of   *)
(* the catalog the library exports; the slot of each catalog function is   *)
(* then populated, and its is_loaded query true, exactly when the library  *)
(* exports it; with no library on the thread every such query is false.    *)
C9_BestEffortSymbols ==
    /\ (last.op = "load" /\ last.found /\ last.opened) =>
            /\ last.ok
            /\ IsSome(LIBRARY[last.t])
    /\ \A h \in 1..Len(libs) : libs[h].functions = Catalog \cap libs[h].image.exports
    /\ last.op = "function_is_loaded" =>
            (last.flag <=> /\ IsSome(LIBRARY[last.t])
                           /\ last.name \in libs[Unwrap(LIBRARY[last.t])].image.exports)

(* C9 witness: after loads of libraries exporting different proper subsets *)
(* of the catalog, a query for a function its thread's library lacks has   *)
(* returned false.                                                         *)
C9_Witness ==
    /\ last.op = "function_is_loaded"
    /\ ~last.flag
    /\ IsSome(LIBRARY[last.t])
    /\ libs[Unwrap(LIBRARY[last.t])].functions # {}
    /\ \E h \in 1..Len(libs) : libs[h].functions \notin {{}, Catalog, libs[Unwrap(LIBRARY[last.t])].functions}

-----------------------------------------------------------------------------
(* Claims about the helper commands, checked under SpecCmd.                *)

IsPrefixOf(a, b) == Len(a) <= Len(b) /\ SubSeq(b, 1, Len(a)) = a
RunOps == {"run_llvm_config", "run_xcode_select"}
HelperOf(op) == IF op = "run_llvm_config" THEN "llvm-config" ELSE "xcode-select"

(* C15: a helper invocation that fails returns no output and appends       *)
(* exactly one message to the list of its own helper, leaving the other    *)
(* helper's list as it was; one that succeeds leaves the mapping as it     *)
(* was; and over every step each list only grows at its end.               *)
C15_FailureRecordedOnce ==
    [][ /\ cmdLast'.op \in RunOps =>
              LET t == cmdLast'.t
                  n == HelperOf(cmdLast'.op)
              IN  IF cmdLast'.failed
                  THEN /\ cmdLast'.out = None
                       /\ Len(COMMAND_ERRORS'[t][n]) = Len(COMMAND_ERRORS[t][n]) + 1
                       /\ COMMAND_ERRORS'[t][n][Len(COMMAND_ERRORS'[t][n])].name = n
                       /\ \A o \in HelperNames \ {n} :
                              COMMAND_ERRORS'[t][o] = COMMAND_ERRORS[t][o]
                  ELSE /\ IsSome(cmdLast'.out)
                       /\ COMMAND_ERRORS' = COMMAND_ERRORS
        /\ \A t \in DOMAIN COMMAND_ERRORS : \A n \in HelperNames :
              IsPrefixOf(COMMAND_ERRORS[t][n], COMMAND_ERRORS'[t][n])
      ]_vars

(* C15 witness: llvm-config failed to spawn and later exited non-zero; its *)
(* list holds the two messages in that order and xcode-select has none.    *)
C15_Witness ==
    /\ cmdLast.op = "run_llvm_config"
    /\ cmdLast.failed
    /\ cmdLast.out = None
    /\ Len(COMMAND_ERRORS["t1"]["llvm-config"]) = 2
    /\ COMMAND_ERRORS["t1"]["llvm-config"][1].message = "error"
    /\ COMMAND_ERRORS["t1"]["llvm-config"][2].message = "exit code"
    /\ COMMAND_ERRORS["t1"]["xcode-select"] = <<>>

(* C16: a link() that finds the library prints no warning, and a link()    *)
(* that fails prints, per helper, exactly the failures accumulated since   *)
(* the printer was last discarded: failures discarded by an earlier        *)
(* successful link() are never printed.                                    *)
C16_DiscardedNeverReported ==
    cmdLast.op = "link" =>
        \A n \in HelperNames :
            cmdLast.printed[n] =
                IF cmdLast.completed THEN 0
                ELSE Len(COMMAND_ERRORS[cmdLast.t][n]) - discardedUpTo[cmdLast.t][n]

(* C17: a failed helper invocation does not abort the operation that made  *)
(* it: a directory search in which a helper failed returns, and a link()   *)
(* whose find() got a directory and in which llvm-config failed runs to    *)
(* its end.                                                                *)
C17_HelperFailureNeverAborts ==
    /\ (cmdLast.op = "search_libclang_directories" /\ cmdLast.failed) => cmdLast.completed
    /\ (cmdLast.op = "link" /\ cmdLast.found /\ cmdLast.failed) => cmdLast.completed

(* C20 as stated: the text a successful invocation returns is the stdout   *)
(* of the helper trimmed of surrounding whitespace.                        *)
C20_OutputTrimmed ==
    (cmdLast.op \in RunOps /\ ~cmdLast.failed) =>
        cmdLast.out = Some(Trim(FromUtf8Lossy(cmdLast.stdout)))

(* C20 amended: the text a successful invocation returns is the whole      *)
(* stdout of the helper: as long as the stdout, with every blank and       *)
(* newline of it in place, the trailing newline included.                  *)
C20_OutputWhole ==
    (cmdLast.op \in RunOps /\ ~cmdLast.failed) =>
        /\ IsSome(cmdLast.out)
        /\ Len(Unwrap(cmdLast.out)) = Len(cmdLast.stdout)
        /\ \A i \in 1..Len(cmdLast.stdout) :
              cmdLast.stdout[i] # "bad" => Unwrap(cmdLast.out)[i] = cmdLast.stdout[i]

(* C20 witness: llvm-config wrote " x?\n" with a leading blank and a       *)
(* trailing newline, and the caller got all four characters.               *)
C20_Witness ==
    /\ cmdLast.op = "run_llvm_config"
    /\ ~cmdLast.failed
    /\ cmdLast.stdout = <<" ", "x", "bad", "\n">>
    /\ cmdLast.out = Some(<<" ", "x", "U+FFFD", "\n">>)

-----------------------------------------------------------------------------
(* Claims about the llvm-config path resolution, checked under SpecCache.  *)

(* C18: find_llvm_config_uncached runs at most once in the process, and    *)
(* all threads that resolved the path have the result of that one run.     *)
C18_SearchedOncePerProcess ==
    /\ searchRuns <= 1
    /\ \A t, u \in DOMAIN LLVM_CONFIG_PATH_CACHE :
          (IsSome(LLVM_CONFIG_PATH_CACHE[t]) /\ IsSome(LLVM_CONFIG_PATH_CACHE[u]))
              => LLVM_CONFIG_PATH_CACHE[t] = LLVM_CONFIG_PATH_CACHE[u]

CachedPath(cache) == IF IsSome(Unwrap(cache)) THEN Unwrap(Unwrap(cache)) ELSE BareLlvmConfig

(* C19: a resolution returns the value of LLVM_CONFIG_PATH when it is set, *)
(* and then neither reads nor fills the cache; otherwise it returns the    *)
(* path the one-time search of its thread found, running that search if    *)
(* the cache is empty, and "llvm-config" if the search found none.         *)
C19_ResolutionPrecedence ==
    [][ cmdLast'.op = "resolve_llvm_config_path" =>
            LET t == cmdLast'.t
            IN  IF IsSome(LLVM_CONFIG_PATH)
                THEN /\ cmdLast'.path = Unwrap(LLVM_CONFIG_PATH)
                     /\ LLVM_CONFIG_PATH_CACHE' = LLVM_CONFIG_PATH_CACHE
                     /\ searchRuns' = searchRuns
                ELSE IF IsSome(LLVM_CONFIG_PATH_CACHE[t])
                THEN /\ cmdLast'.path = CachedPath(LLVM_CONFIG_PATH_CACHE[t])
                     /\ LLVM_CONFIG_PATH_CACHE' = LLVM_CONFIG_PATH_CACHE
                     /\ searchRuns' = searchRuns
                ELSE /\ IsSome(LLVM_CONFIG_PATH_CACHE'[t])
                     /\ cmdLast'.path = CachedPath(LLVM_CONFIG_PATH_CACHE'[t])
                     /\ searchRuns' = searchRuns + 1
      ]_vars

(* C19 witness: with LLVM_CONFIG_PATH unset, a thread whose search found   *)
(* /usr/lib/llvm-18/bin/llvm-config has resolved to that path, while the   *)
(* other thread, whose search found nothing, holds "not found".            *)
C19_Witness ==
    /\ cmdLast.op = "resolve_llvm_config_path"
    /\ cmdLast.t = "t1"
    /\ IsNone(LLVM_CONFIG_PATH)
    /\ LLVM_CONFIG_PATH_CACHE["t1"] = Some(Some(UsrLibLlvm18))
    /\ LLVM_CONFIG_PATH_CACHE["t2"] = Some(None)
    /\ cmdLast.path = UsrLibLlvm18

-----------------------------------------------------------------------------
(* Claims about extract_version_from_llvm_path, checked under SpecKey.     *)

(* The integers among the parts of a text split at '.'. *)
Ints(toks) ==
    LET kept == SelectSeq(toks, LAMBDA tok : tok.num /\ ~tok.big)
    IN  [i \in 1..Len(kept) |-> kept[i].val]

(* The <v> of a component of the form llvm@<v> or llvm-<v>, if it has one. *)
VersionText(c) ==
    IF IsSome(StripPrefix(c, "llvm@")) THEN StripPrefix(c, "llvm@")
    ELSE StripPrefix(c, "llvm-")
VersionedComponents(path) ==
    LET comps == path.dirs \o <<path.file>>
    IN  {i \in 1..Len(comps) :
            IsSome(VersionText(comps[i])) /\ Ints(Unwrap(VersionText(comps[i]))) # <<>>}

(* C21: the key of a path is, first match wins, (1) for a file name        *)
(* llvm-config-<suffix> the integers of the suffix, or [0] when it has     *)
(* none, whatever the directories are called; (2) the integers of the      *)
(* first component llvm@<v> or llvm-<v> that has any; (3) [999].  The key  *)
(* is never empty.                                                         *)
C21_RulesInOrder ==
    IsSome(keyOut) =>
        LET key    == Unwrap(keyOut)
            comps  == keyPath.dirs \o <<keyPath.file>>
            suffix == StripPrefix(keyPath.file, "llvm-config-")
            hits   == VersionedComponents(keyPath)
        IN  /\ key # <<>>
            /\ key = IF IsSome(suffix)
                     THEN (IF Ints(Unwrap(suffix)) # <<>> THEN Ints(Unwrap(suffix)) ELSE <<0>>)
                     ELSE IF hits # {}
                     THEN Ints(Unwrap(VersionText(comps[MinOf(hits)])))
                     ELSE <<999>>

(* C21 witness: llvm-config-17 inside a directory llvm-18 has the key [17]. *)
C21_Witness ==
    /\ keyPath = Path(<<Comp("llvm-", <<Digits(18)>>)>>, Comp("llvm-config-", <<Digits(17)>>))
    /\ keyOut = Some(<<17>>)

-----------------------------------------------------------------------------
(* Claims about the sentinel key, checked under SpecSel.                   *)

(* The candidates that kept the key [999] of an unversioned install. *)
SentinelIdx == {i \in 1..Len(candidates) : candidates[i].version = <<999>>}
(* An unversioned path whose own `--version` gave the major n. *)
QueriedMajor(path) ==
    IF extract_version_from_llvm_path(path) = <<999>>
    THEN query_llvm_config_version(queryOut[path]) ELSE None
(* Every candidate is recorded with the major its query reported, if any. *)
QueriedKeyUsed ==
    \A i \in 1..Len(candidates) :
        LET real == QueriedMajor(candidates[i].path)
        IN  IsSome(real) =>
                /\ candidates[i].version = <<Unwrap(real)>>
                /\ (target_version = real /\ MatchingIdx(Unwrap(real)) = {i})
                       => selResult = Some(candidates[i].path)

C23_TestModeSkipsSearch ==
    (selDone /\ testMode) =>
        /\ selResult = None
        /\ candidates = <<>>
        /\ selEffects = NoEffects
        /\ \A override \in {None, Some(CustomLlvmConfig)} :
              resolve_llvm_config_path(override, None, selResult).path
                  = IF IsSome(override) THEN Unwrap(override) ELSE BareLlvmConfig

(* C23 witness: a test run on a system whose PATH has a runnable           *)
(* llvm-config and whose globs would match.                                *)
C23_Witness ==
    /\ selDone /\ testMode
    /\ pathProbe.ok
    /\ fsMatches = <<UsrLibLlvm18>>
    /\ selResult = None
    /\ selEffects.spawned = 0

(* C26: with a target the PATH-resolved llvm-config is accepted only when  *)
(* the major it reports is the target, and the patterns are searched       *)
(* otherwise; with no target a runnable one is accepted and no pattern is  *)
(* searched.                                                               *)
C26_PathProbeNeedsMatch ==
    (selDone /\ ~testMode) =>
        /\ IsSome(target_version) =>
              IF pathProbe.ok /\ ParseMajor(pathProbe.out) = target_version
              THEN selResult = Some(BareLlvmConfig) /\ ~selEffects.globbed
              ELSE selResult # Some(BareLlvmConfig) /\ selEffects.globbed
        /\ (IsNone(target_version) /\ pathProbe.ok) =>
              selResult = Some(BareLlvmConfig) /\ ~selEffects.globbed

-----------------------------------------------------------------------------
(* Claims about the filesystem scanner, checked under SpecScan.            *)

(* C24: no entry a search returns has a file name that contains "-cpp.",   *)
(* whatever the directories hold and whatever the patterns match, on the   *)
(* override path as on every other search path.                            *)
C24_NoCppInfix ==
    IsSome(scanOut) =>
        \A i \in 1..Len(Unwrap(scanOut).found) :
            ~Contains(Unwrap(scanOut).found[i].filename, <<"-", "cpp", ".">>)

(* C24 witness: the override directory holds libclang-cpp.a and            *)
(* libclang.a, libclang*.a matches both, and libclang.a alone is returned. *)
C24_Witness ==
    /\ IsSome(scanOut) /\ IsSome(scanVariable)
    /\ scanFilenames = WidePatterns
    /\ scanFs["override"] = <<LibclangCppA, LibclangA>>
    /\ GlobMatch(WidePatterns[1], LibclangCppA)
    /\ Unwrap(scanOut).found = <<Entry("override", LibclangA)>>

(* The files of a directory the scanner reports for the patterns. *)
Reported(directory) ==
    {name \in FileNames :
        /\ \E i \in 1..Len(scanFs[directory]) : scanFs[directory][i] = name
        /\ \E i \in 1..Len(scanFilenames) : GlobMatch(scanFilenames[i], name)
        /\ ~Contains(name, <<"-", "cpp", ".">>)}

(* C25: with the variable set the call returns the one pair (parent, file  *)
(* name) when the path names a reported file of its parent directory, and  *)
(* the reported files of the override directory otherwise; it invokes no   *)
(* helper and gives the scanner no LD_LIBRARY_PATH or pattern directory.   *)
C25_OverrideExclusive ==
    (IsSome(scanOut) /\ IsSome(scanVariable)) =>
        LET path == Unwrap(scanVariable)
            out  == Unwrap(scanOut)
            file == /\ IsSome(path.parent) /\ IsSome(path.file_name)
                    /\ Unwrap(path.file_name) \in Reported(Unwrap(path.parent))
        IN  /\ ~out.panicked
            /\ out.calls = <<>>
            /\ \A i \in 1..Len(out.searched) : out.searched[i] \in {"parent", "override"}
            /\ IF file
               THEN out.found = <<Entry(Unwrap(path.parent), Unwrap(path.file_name))>>
               ELSE /\ \A i \in 1..Len(out.found) :
                         /\ out.found[i].directory = path.dir
                         /\ out.found[i].filename \in Reported(path.dir)
                    /\ \A name \in Reported(path.dir) :
                         \E i \in 1..Len(out.found) : out.found[i].filename = name

-----------------------------------------------------------------------------
(* Claims about shared and replaced handles, checked under Spec.           *)

(* The contexts and callers that hold a reference to a handle. *)
Holders(slots, kept, handle) ==
    Cardinality({t \in Threads : slots[t] = Some(handle)})
        + (IF kept = Some(handle) THEN 1 ELSE 0)

(* C27: get_library leaves the slot as it is and gives out the instance    *)
(* the slot holds; set_library installs the handle it is given in the      *)
(* calling thread's slot alone and returns what the slot held; unload      *)
(* empties the calling thread's slot alone; and an instance is open        *)
(* exactly as long as a slot or a caller holds a reference to it.          *)
C27_SharedHandOff ==
    [][ /\ last'.op = "get_library" =>
              /\ LIBRARY' = LIBRARY
              /\ held' = LIBRARY[last'.t]
        /\ last'.op = "set_library" =>
              /\ last'.pre = LIBRARY[last'.t]
              /\ LIBRARY'[last'.t] \in {None, held}
              /\ \A u \in Threads \ {last'.t} : LIBRARY'[u] = LIBRARY[u]
        /\ last'.op = "unload" =>
              /\ LIBRARY'[last'.t] = None
              /\ \A u \in Threads \ {last'.t} : LIBRARY'[u] = LIBRARY[u]
              /\ held' = held
        /\ \A handle \in 1..Len(libs') :
              /\ strong'[handle] = Holders(LIBRARY', held', handle)
              /\ (strong'[handle] = 0) <=> (Holders(LIBRARY', held', handle) = 0)
      ]_vars

(* C27 witness: t1 has unloaded the instance it handed to t2, which still  *)
(* holds it, open.                                                         *)
C27_Witness ==
    /\ last.op = "unload" /\ last.t = "t1" /\ last.ok
    /\ last.pre = Some(1)
    /\ LIBRARY["t1"] = None
    /\ LIBRARY["t2"] = Some(1)
    /\ held = Some(1)
    /\ strong[1] = 2

(* C28: a load succeeds or fails by what it finds and opens, whatever the  *)
(* slot holds; a successful one puts a new instance in the slot and        *)
(* releases the slot's reference to the one it held; an unload empties the *)
(* slot and succeeds exactly when the slot held a handle.                  *)
C28_LoadReplaces ==
    [][ /\ last'.op = "load" =>
              /\ last'.ok <=> (last'.found /\ last'.opened)
              /\ last'.ok =>
                    /\ Len(libs') = Len(libs) + 1
                    /\ LIBRARY'[last'.t] = Some(Len(libs'))
                    /\ strong'[Len(libs')] = 1
                    /\ IsSome(LIBRARY[last'.t]) =>
                          strong'[Unwrap(LIBRARY[last'.t])]
                              = strong[Unwrap(LIBRARY[last'.t])] - 1
              /\ ~last'.ok => LIBRARY' = LIBRARY
        /\ last'.op = "unload" =>
              /\ last'.ok <=> IsSome(LIBRARY[last'.t])
              /\ LIBRARY'[last'.t] = None
      ]_vars

(* C28 witness: a second load on a thread has replaced the first instance, *)
(* which nobody holds any more.                                            *)
C28_Witness ==
    /\ last.op = "load" /\ last.ok /\ last.t = "t1"
    /\ last.pre = Some(1)
    /\ LIBRARY["t1"] = Some(2)
    /\ strong = <<0, 1>>

====
